---- MODULE Spec2Model ----
(***************************************************************************)
(* Nodoka audiobook player: the duration-scan queue (Core::ScanPlayer,     *)
(* Core::PlayerScanTask, AudiobookProxy, AudiobookFileProxy) and the       *)
(* interactive player (Core::ConcretePlayer).                              *)
(*                                                                         *)
(* Spec        the scan queue: callers of addAudiobook/addAudiobookFile,   *)
(*             the PlayerScanTask workers, the libvlc scanning engine and  *)
(*             the one-thread pool that runs the now-playing lambda.       *)
(* PlayerSpec  the interactive player's load/release/play/stop cycle.      *)
(* EventSpec   the interactive player with its libvlc engine: the player   *)
(*             commands, the engine's events and the slots of              *)
(*             Core::PlayerEventHandler they reach.                        *)
(* SeekSpec    the player commands with updateSeekPosition.                *)
(* VolumeSpec  ConcretePlayer::setVolume and Core::Setting::setVolume.     *)
(* CacheSpec   ProxyManager's two proxy caches.                            *)
(* RaceSpec    two threads inside ProxyManager::getAudiobookFileProxy.     *)
(* ProxySpec   calls on the AudiobookFileProxy and AudiobookProxy objects   *)
(*             and the sidecar documents they write.                       *)
(* SaveSpec    saveCurrentTime and setMediaDuration on the file proxies.   *)
(* NextFileSpec  the player's load cycle with getNextFile.                 *)
(* StaleSpec   the player's commands beside the callbacks of libvlc's      *)
(*             thread.                                                     *)
(* RescanSpec  registerAudioBook and AudiobookProxy::rescan on one         *)
(*             audiobook's directory.                                      *)
(* ConstructSpec  the constructors of ConcretePlayer and ScanPlayer.       *)
(***************************************************************************)
EXTENDS Integers, Sequences, FiniteSets, TLC

\* ------------------------------------------------------------------ bounds
\* Files of the one collection, in child-list order 1..NumFiles.
NumFiles == 2
\* addAudiobook / addAudiobookFile calls issued over a run (one task each).
MaxCalls == 2
\* Records the interactive player can be asked to load.
NumRecords == 2
\* Media handles the interactive player may create over a run.
MaxHandles == 3
\* loadMedia calls that take effect in a run of the player with its engine.
MaxLoads == 1
\* ProxyManager.cpp:9, static const int CACHE_SIZE_MAX (1000 in the source).
CACHE_SIZE_MAX == 1
\* Setting.cpp:22, the volume read when nodoka.ini stores none.
DefaultVolume == 100
\* Step of the playback position between two time-changed events.
Tick == 50

Files == 1..NumFiles
CallIds == 1..MaxCalls
Records == 1..NumRecords
\* Values of the volume slider.
Volumes == {DefaultVolume \div 2, DefaultVolume}
\* Positions the progress slider can be moved to.
SeekTargets == {0, Tick}
\* Playback is followed up to this position.
LastPosition == Tick
\* record.value("audiobook_id"): records come in pairs per audiobook.
AudiobookOf(r) == (r + 1) \div 2
\* record.value("position"): the place of the record in its audiobook.
PositionOf(r) == r - 2 * (AudiobookOf(r) - 1)
Audiobooks == {AudiobookOf(r) : r \in Records}
\* Keys of the records handed to ProxyManager, and the revisions of a record
\* (the same row read from the database at different times).
Keys == 1..(CACHE_SIZE_MAX + 2)
Revisions == {1, 2}
\* Proxy objects ProxyManager may construct over a run.
MaxProxies == CACHE_SIZE_MAX + 3
\* The threads that call ProxyManager: the UI thread (FileDisplayModel::data)
\* and a scan task that builds an audiobook's file list.
GetThreads == {"ui", "task"}

\* What the file system and libvlc do with a file when it is probed:
\*   ok       the file opens, the media reaches Playing, a duration is known
\*   noopen   QFile::open fails
\*   nomedia  libvlc_media_new_fd returns NULL
\*   noplay   the media never reaches libvlc_Playing
\*   nodur    the media reaches Playing, libvlc_media_get_duration gives -1
Outcomes == {"ok", "noopen", "nomedia", "noplay", "nodur"}
\* A file no probe has touched yet has outcome "unknown"; its first probe
\* fixes the outcome, and every later probe of the file meets the same one.

VARIABLES
    \* ---- Core::ScanPlayer
    fileQueue,          \* std::queue of entries [file, ticket]; ticket = push number
    mutex,              \* QMutex: TRUE when locked
    hasScanFinished,    \* bool
    currentlyScanning,  \* file being probed, 0 = nullptr
    scanMediaItem,      \* ScanPlayer::mediaItem: file the media was made from, 0 = none
    scanVlc,            \* scanning engine: [state, attached]
    threadPool,         \* ThreadPool(1): number of queued now-playing lambdas
    \* ---- callers and PlayerScanTask workers, one per call slot
    calls,              \* [kind, file, pc, allUnscanned, duringProbe]; duringProbe:
                        \* a probe was in progress when the call was made
    tasks,              \* [pc, failed]
    \* ---- sidecar documents and proxies
    fileDuration,       \* file -> persisted "duration" (0 = no value stored)
    mediaProperty,      \* file -> MediaProperty duration, 0 = null object
    totalDuration,      \* the collection's persisted "duration" (0 = no value)
    \* ---- environment
    env,                \* file -> "unknown" or the Outcome its probes meet
    \* ---- observation
    pushCount,          \* pushes made so far (the last ticket handed out)
    probeLog,           \* sequence of <<"start", ticket>> / <<"done", ticket>>
    \* ---- Core::ConcretePlayer
    mediaLoaded,
    audiobookFileProxy, \* record of the proxy, 0 = nullptr
    currentPath,
    mediaItem,          \* media handle id, 0 = none yet
    autoPlay,
    mediaCallbacks,     \* handles with the media callbacks attached
    handlesCreated,     \* handles made by libvlc_media_new_path so far
    playerMedia,        \* handle set on the libvlc media player, 0 = none
    playerState,        \* libvlc media player state
    lastOp,             \* the last player command issued or engine event
                        \* delivered: [op, arg, state, seq, played]; seq flips
                        \* at each; played: some play() so far was called with
                        \* a media loaded;
                        \* arg is the command's argument, the position of a
                        \* time-changed event, the duration of a parsed event
    volume,             \* ConcretePlayer::volume
    \* ---- the player's AudiobookFileProxy and the sidecar documents it writes
    proxyProperty,      \* its MediaProperty: [isNull, duration]
    savedDuration,      \* record -> persisted "duration" (0 = no value stored)
    savedTime,          \* record -> persisted "currentTime": <<>> or <<t>>
    savedCompleteness,  \* record -> persisted "completeness", the double num/den
    \* ---- audiobooks table and Core::Setting (nodoka.ini)
    selectedFile,       \* audiobook -> selected_file: <<>> (NULL) or a path
    settingAudiobook,   \* "audiobook_id": <<>> or <<id>>
    settingVolume,      \* "volume": <<>> or <<v>>
    \* ---- the libvlc media player
    vlcVolume,          \* libvlc_audio_set_volume
    vlcTime,            \* libvlc_media_player_get_time
    vlcSeekable,        \* libvlc_media_player_is_seekable
    mediaState,         \* state of the player's media that its last
                        \* MediaStateChanged event announced
    mediaParsed,        \* libvlc_media_is_parsed(mediaItem)
    \* ---- observation
    emitted,            \* PlayerEventHandler signals emitted by the last step
    lastSeek,           \* libvlc_media_player_set_time calls of the last step
    \* ---- ProxyManager
    abFileCache,        \* full_path -> cached proxy [id, rev, callback]; id 0 = none,
                        \* rev = revision of the record it was made from,
                        \* callback = update functions attached
    loadedAudiobooks,   \* audiobook id -> cached proxy, likewise
    proxiesMade,        \* proxies constructed so far (the last id handed out)
    lastGet,            \* the last call on ProxyManager or on a proxy it
                        \* holds: [cache, key, rev, proxy]; proxy = id returned
    droppedProxies,     \* file proxies a clear took out of abFileCache, which
                        \* their callers still hold: [id, key, rev, callback]
    \* ---- threads inside ProxyManager::getAudiobookFileProxy
    getCalls,           \* thread -> [pc, key, rev, proxy]; pc = "idle", "insert"
                        \* (key looked up and missed) or "returned"
    \* ---- the sidecar documents of the AudiobookProxy objects
    audiobookDuration,      \* audiobook -> persisted "duration" (0 = no value)
    audiobookCompleteness,  \* audiobook -> persisted "completeness" (0 = no value)
    \* ---- observation
    lastNext,           \* the last hasNextFile / getNextFile calls on a proxy:
                        \* [record, has, next, isNull]; next = record of the
                        \* proxy returned, 0 = none
    lastSave,           \* the last saveCurrentTime call that was followed:
                        \* [record, time]
    unsynced,           \* record -> the QSettings of its sidecar document holds
                        \* a setValue that no sync() has followed (SaveSpec)
    \* ---- the libvlc handles of Core::ConcretePlayer and Core::ScanPlayer
    vlcHandles,         \* component -> [stage, inst, mediaPlayer]; stage = "none"
                        \* (not constructed), "built", "aborted" (the
                        \* constructor threw) or "crashed"; inst, mediaPlayer:
                        \* the handle is not NULL
    \* ---- libvlc's event thread
    pendingEvent,       \* the MediaStateChanged event whose callback libvlc's
                        \* thread has entered: [media, state]; media 0 = none
    \* ---- one audiobook's directory, its rows and its AudiobookProxy
    onDisk,             \* the audio files in the audiobook's directory
    audiobook_file,     \* path -> position of its audiobook_file row; 0 = no row
    fileListCache       \* AudiobookProxy::fileListCache: the paths of its proxies

scanVars == <<fileQueue, mutex, hasScanFinished, currentlyScanning, scanMediaItem,
              scanVlc, threadPool, calls, tasks, fileDuration, mediaProperty,
              totalDuration, env, pushCount, probeLog>>
playerFields == <<mediaLoaded, audiobookFileProxy, currentPath, mediaItem, autoPlay,
                  mediaCallbacks, handlesCreated, playerMedia, playerState>>
playerVars == <<playerFields, lastOp>>
eventVars == <<volume, proxyProperty, savedDuration, savedTime, savedCompleteness,
               selectedFile, settingAudiobook, settingVolume, vlcVolume, vlcTime,
               vlcSeekable, mediaState, mediaParsed, emitted, lastSeek>>
cacheVars == <<abFileCache, loadedAudiobooks, proxiesMade, lastGet, droppedProxies>>
proxyVars == <<getCalls, audiobookDuration, audiobookCompleteness, lastNext, lastSave,
               unsynced>>
libraryVars == <<onDisk, audiobook_file, fileListCache>>
otherVars == <<vlcHandles, pendingEvent, libraryVars>>
vars == <<scanVars, playerVars, eventVars, cacheVars, proxyVars, otherVars>>

\* ------------------------------------------------------------ pure helpers

\* The duration libvlc reports for a file it can play.
BackendDuration(f) == 100 * f

\* libvlc_media_get_duration on the media of file f.
VlcGetDuration(f) == IF env[f] = "nodur" THEN -1 ELSE BackendDuration(f)

\* AudiobookFileProxy::getMediaDuration
getMediaDuration(f) ==
    IF fileDuration[f] > 0 THEN fileDuration[f]
    ELSE IF mediaProperty[f] = 0 THEN -1
    ELSE mediaProperty[f]

\* AudiobookProxy::getFilesForAudiobook: the child list, in storage order.
getFilesForAudiobook == [i \in 1..NumFiles |-> i]

\* AudiobookProxy::allFileDurationScanned
allFileDurationScanned == \A f \in Files : getMediaDuration(f) > 0

RECURSIVE SumDurations(_)
\* The loop of AudiobookProxy::handlePropertyScanFinished: every child's
\* getMediaDuration is added, also a -1.
SumDurations(list) ==
    IF list = <<>> THEN 0
    ELSE getMediaDuration(Head(list)) + SumDurations(Tail(list))

\* The files of a queue, in queue order.
QueueFiles(q) == [i \in 1..Len(q) |-> q[i].file]

RECURSIVE PushAll(_, _, _)
\* std::queue::push of each element of list, numbering the pushes from n+1.
PushAll(q, list, n) ==
    IF list = <<>> THEN q
    ELSE PushAll(Append(q, [file |-> Head(list), ticket |-> n + 1]), Tail(list), n + 1)

\* The files addAudiobook pushes: the whole child list, with no duration test.
addAudiobookSelection == getFilesForAudiobook

\* addAudiobookFile without its test for an already scanned file.
alreadyScannedNever(f) == FALSE

\* The test addAudiobookFile makes before pushing.
alreadyScanned(f) == getMediaDuration(f) > 0

\* ------------------------------------------------------------------- Init

NoCall == [kind |-> "none", file |-> 0, pc |-> "idle", allUnscanned |-> FALSE,
           duringProbe |-> FALSE]
NoTask == [pc |-> "none", failed |-> 0]

ScanInit ==
    /\ fileQueue = <<>>
    /\ mutex = FALSE
    /\ hasScanFinished = TRUE
    /\ currentlyScanning = 0
    /\ scanMediaItem = 0
    /\ scanVlc = [state |-> "idle", attached |-> FALSE]
    /\ threadPool = 0
    /\ calls = [c \in CallIds |-> NoCall]
    /\ tasks = [c \in CallIds |-> NoTask]
    /\ fileDuration \in [Files -> {0} \cup {BackendDuration(f) : f \in Files}]
    /\ \A f \in Files : fileDuration[f] \in {0, BackendDuration(f)}
    /\ mediaProperty = [f \in Files |-> 0]
    /\ totalDuration = 0
    /\ env = [f \in Files |-> "unknown"]
    /\ pushCount = 0
    /\ probeLog = <<>>

PlayerInit ==
    /\ mediaLoaded = FALSE
    /\ audiobookFileProxy = 0
    /\ currentPath = 0
    /\ mediaItem = 0
    /\ autoPlay = FALSE
    /\ mediaCallbacks = {}
    /\ handlesCreated = 0
    /\ playerMedia = 0
    /\ playerState = "NothingSpecial"
    /\ lastOp = [op |-> "none", arg |-> 0, state |-> "", seq |-> 0, played |-> FALSE]

\* MediaProperty(): the null object.
NullProperty == [isNull |-> TRUE, duration |-> 0]

\* Setting::getVolume
getVolume == IF settingVolume = <<>> THEN DefaultVolume ELSE settingVolume[1]

\* libvlc_media_player_get_time with no input running.
NoTime == -1

\* The player's constructor on a fresh nodoka.ini, fresh sidecar documents and
\* an audiobooks table with no selected file.
EventInit ==
    /\ settingVolume = <<>>
    /\ settingAudiobook = <<>>
    /\ volume = getVolume
    /\ vlcVolume = volume
    /\ proxyProperty = NullProperty
    /\ savedDuration = [r \in Records |-> 0]
    /\ savedTime = [r \in Records |-> <<>>]
    /\ savedCompleteness = [r \in Records |-> [num |-> 0, den |-> 1]]
    /\ selectedFile = [a \in Audiobooks |-> <<>>]
    /\ vlcTime = NoTime
    /\ vlcSeekable = FALSE
    /\ mediaState = "NothingSpecial"
    /\ mediaParsed = FALSE
    /\ emitted = <<>>
    /\ lastSeek = <<>>

\* No proxy cached under a key.
NoProxy == [id |-> 0, rev |-> 0, callback |-> FALSE]

\* ProxyManager's constructor.
CacheInit ==
    /\ abFileCache = [k \in Keys |-> NoProxy]
    /\ loadedAudiobooks = [a \in Audiobooks |-> NoProxy]
    /\ proxiesMade = 0
    /\ lastGet = [cache |-> "none", key |-> 0, rev |-> 0, proxy |-> 0]
    /\ droppedProxies = {}

\* No thread is inside ProxyManager.
NoGetCall == [pc |-> "idle", key |-> 0, rev |-> 0, proxy |-> 0]

ProxyInit ==
    /\ getCalls = [t \in GetThreads |-> NoGetCall]
    /\ audiobookDuration = [a \in Audiobooks |-> 0]
    /\ audiobookCompleteness = [a \in Audiobooks |-> 0]
    /\ lastNext = [record |-> 0, has |-> FALSE, next |-> 0, isNull |-> FALSE]
    /\ lastSave = [record |-> 0, time |-> 0]
    /\ unsynced = [r \in Records |-> FALSE]

\* The two components that own a libvlc engine.
Components == {"player", "scan"}

\* A component whose constructor has run and got both its handles.
Built == [stage |-> "built", inst |-> TRUE, mediaPlayer |-> TRUE]

\* A component whose constructor has not run yet.
NotBuilt == [stage |-> "none", inst |-> FALSE, mediaPlayer |-> FALSE]

\* The paths a directory may hold; their order is the order of the strings.
NumPaths == 3
Paths == 1..NumPaths

\* An empty directory, no audiobook_file row, nothing cached.
LibraryInit ==
    /\ onDisk = {}
    /\ audiobook_file = [p \in Paths |-> 0]
    /\ fileListCache = {}

\* No event is being handled.
NoEvent == [media |-> 0, state |-> ""]

\* Everything but the libvlc handles.
FieldsInit ==
    /\ ScanInit /\ PlayerInit /\ EventInit /\ CacheInit /\ ProxyInit
    /\ pendingEvent = NoEvent
    /\ LibraryInit

\* The program after both constructors have run with a working engine.
Init == FieldsInit /\ vlcHandles = [c \in Components |-> Built]

\* ------------------------------------------------- ScanPlayer: the callers

\* The tasks with a probe in progress: the file is playing and the task
\* waits for hasScanFinished.
Probing == {t \in CallIds : tasks[t].pc \in {"played", "polling"}}

\* Call slots are used in order: slot c is taken once slot c-1 is.
NextSlot(c) ==
    /\ calls[c].pc = "idle"
    /\ calls[c].kind = "none"
    /\ c > 1 => calls[c - 1].kind # "none"

\* addAudiobook up to the mutex: the child list is read, then the caller
\* waits for the queue mutex.
addAudiobookCall(c) ==
    /\ NextSlot(c)
    /\ calls' = [calls EXCEPT ![c] =
                    [kind |-> "book", file |-> 0, pc |-> "lock",
                     allUnscanned |-> \A f \in Files : getMediaDuration(f) <= 0,
                     duringProbe |-> Probing # {}]]
    /\ UNCHANGED <<playerVars, eventVars, cacheVars, proxyVars, otherVars>>
    /\ UNCHANGED <<fileQueue, mutex, hasScanFinished, currentlyScanning, scanMediaItem,
                   scanVlc, threadPool, tasks, fileDuration, mediaProperty,
                   totalDuration, env, pushCount, probeLog>>

\* addAudiobookFile up to the mutex: an already scanned file returns at once.
addAudiobookFileCall(c, f) ==
    /\ NextSlot(c)
    /\ calls' = [calls EXCEPT ![c] =
                    [kind |-> "file", file |-> f,
                     pc |-> IF alreadyScanned(f) THEN "done" ELSE "lock",
                     allUnscanned |-> FALSE,
                     duringProbe |-> Probing # {}]]
    /\ UNCHANGED <<playerVars, eventVars, cacheVars, proxyVars, otherVars>>
    /\ UNCHANGED <<fileQueue, mutex, hasScanFinished, currentlyScanning, scanMediaItem,
                   scanVlc, threadPool, tasks, fileDuration, mediaProperty,
                   totalDuration, env, pushCount, probeLog>>

\* The rest of either call: mutex.lock(); push...; mutex.unlock(), which
\* runs when the mutex is free and is atomic for every other user of the
\* mutex, then startScanTask, which hands a new PlayerScanTask to the
\* QThreadPool. The task does nothing until it asks for the mutex itself.
pushAndStartScanTask(c) ==
    /\ calls[c].pc = "lock"
    /\ mutex = FALSE
    /\ LET list == IF calls[c].kind = "book" THEN addAudiobookSelection
                   ELSE <<calls[c].file>>
       IN /\ fileQueue' = PushAll(fileQueue, list, pushCount)
          /\ pushCount' = pushCount + Len(list)
    /\ calls' = [calls EXCEPT ![c].pc = "done"]
    /\ tasks' = [tasks EXCEPT ![c].pc = "queued"]
    /\ UNCHANGED <<playerVars, eventVars, cacheVars, proxyVars, otherVars>>
    /\ UNCHANGED <<mutex, hasScanFinished, currentlyScanning, scanMediaItem,
                   scanVlc, threadPool, fileDuration, mediaProperty,
                   totalDuration, env, probeLog>>

\* ------------------------------------- ScanPlayer: performScan, step by step

\* performScan entered without waiting for the mutex.
mutexIgnored == TRUE

\* mutex.lock() at the top of performScan.
mutexFree == mutex = FALSE

performScanLock(t) ==
    /\ tasks[t].pc = "queued"
    /\ mutexFree
    /\ mutex' = TRUE
    /\ tasks' = [tasks EXCEPT ![t].pc = "loop"]
    /\ UNCHANGED <<playerVars, eventVars, cacheVars, proxyVars, otherVars>>
    /\ UNCHANGED <<fileQueue, hasScanFinished, currentlyScanning, scanMediaItem,
                   scanVlc, threadPool, calls, fileDuration, mediaProperty,
                   totalDuration, env, pushCount, probeLog>>

\* Where PlayerScanTask::run stands once performScan has returned: a task
\* with no audiobook has nothing left to do.
afterPerformScan(t, pc) == IF calls[t].kind = "book" THEN pc ELSE "done"

\* The file system and libvlc meet file f with outcome o.
meets(f, o) == env[f] \in {"unknown", o}

\* while(!fileQueue.empty()) is false: mutex.unlock(), performScan returns.
performScanExit(t) ==
    /\ tasks[t].pc = "loop"
    /\ fileQueue = <<>>
    /\ mutex' = FALSE
    /\ tasks' = [tasks EXCEPT ![t].pc = afterPerformScan(t, "finish")]
    /\ UNCHANGED <<playerVars, eventVars, cacheVars, proxyVars, otherVars>>
    /\ UNCHANGED <<fileQueue, hasScanFinished, currentlyScanning, scanMediaItem,
                   scanVlc, threadPool, calls, fileDuration, mediaProperty,
                   totalDuration, env, pushCount, probeLog>>

\* The element performScan takes: fileQueue.front().
front(q) == Head(q)

\* The loop body up to a failed QFile::open: return, with the mutex held and
\* the entry still at the head of the queue.
performScanOpenFailed(t) ==
    /\ tasks[t].pc = "loop"
    /\ fileQueue # <<>>
    /\ meets(front(fileQueue).file, "noopen")
    /\ env' = [env EXCEPT ![front(fileQueue).file] = "noopen"]
    /\ hasScanFinished' = FALSE
    /\ currentlyScanning' = front(fileQueue).file
    /\ tasks' = [tasks EXCEPT ![t] = [pc |-> afterPerformScan(t, "returned"),
                                    failed |-> front(fileQueue).ticket]]
    /\ probeLog' = Append(probeLog, <<"start", front(fileQueue).ticket>>)
    /\ UNCHANGED <<playerVars, eventVars, cacheVars, proxyVars, otherVars>>
    /\ UNCHANGED <<fileQueue, mutex, scanMediaItem, scanVlc, threadPool, calls,
                   fileDuration, mediaProperty, totalDuration, pushCount>>

\* The loop body up to libvlc_media_new_fd returning NULL: return likewise.
performScanMediaFailed(t) ==
    /\ tasks[t].pc = "loop"
    /\ fileQueue # <<>>
    /\ meets(front(fileQueue).file, "nomedia")
    /\ env' = [env EXCEPT ![front(fileQueue).file] = "nomedia"]
    /\ hasScanFinished' = FALSE
    /\ currentlyScanning' = front(fileQueue).file
    /\ scanMediaItem' = 0
    /\ tasks' = [tasks EXCEPT ![t] = [pc |-> afterPerformScan(t, "returned"),
                                    failed |-> front(fileQueue).ticket]]
    /\ probeLog' = Append(probeLog, <<"start", front(fileQueue).ticket>>)
    /\ UNCHANGED <<playerVars, eventVars, cacheVars, proxyVars, otherVars>>
    /\ UNCHANGED <<fileQueue, mutex, scanVlc, threadPool, calls,
                   fileDuration, mediaProperty, totalDuration, pushCount>>

\* The loop body up to libvlc_media_player_play: the new media has no
\* callback attached yet.
performScanPlay(t) ==
    /\ tasks[t].pc = "loop"
    /\ fileQueue # <<>>
    /\ \E o \in {"ok", "noplay", "nodur"} :
          /\ meets(front(fileQueue).file, o)
          /\ env' = [env EXCEPT ![front(fileQueue).file] = o]
    /\ hasScanFinished' = FALSE
    /\ currentlyScanning' = front(fileQueue).file
    /\ scanMediaItem' = front(fileQueue).file
    /\ scanVlc' = [state |-> "started", attached |-> FALSE]
    /\ tasks' = [tasks EXCEPT ![t].pc = "played"]
    /\ probeLog' = Append(probeLog, <<"start", front(fileQueue).ticket>>)
    /\ UNCHANGED <<playerVars, eventVars, cacheVars, proxyVars, otherVars>>
    /\ UNCHANGED <<fileQueue, mutex, threadPool, calls,
                   fileDuration, mediaProperty, totalDuration, pushCount>>

\* libvlc_event_attach of the MediaStateChanged callback on the media item.
performScanAttach(t) ==
    /\ tasks[t].pc = "played"
    /\ scanVlc' = [scanVlc EXCEPT !.attached = TRUE]
    /\ tasks' = [tasks EXCEPT ![t].pc = "polling"]
    /\ UNCHANGED <<playerVars, eventVars, cacheVars, proxyVars, otherVars>>
    /\ UNCHANGED <<fileQueue, mutex, hasScanFinished, currentlyScanning, scanMediaItem,
                   threadPool, calls, fileDuration, mediaProperty,
                   totalDuration, env, pushCount, probeLog>>

\* libvlc's own thread: the media reaches libvlc_Playing. The callback, when
\* attached by then, enqueues the lambda on the thread pool; an event raised
\* before the attach reaches nobody.
vlcNowPlaying ==
    /\ scanVlc.state = "started"
    /\ env[scanMediaItem] \in {"ok", "nodur"}
    /\ scanVlc' = [scanVlc EXCEPT !.state = "playing"]
    /\ threadPool' = IF scanVlc.attached THEN threadPool + 1 ELSE threadPool
    /\ UNCHANGED <<playerVars, eventVars, cacheVars, proxyVars, otherVars>>
    /\ UNCHANGED <<fileQueue, mutex, hasScanFinished, currentlyScanning, scanMediaItem,
                   calls, tasks, fileDuration, mediaProperty,
                   totalDuration, env, pushCount, probeLog>>

\* The lambda's test for persisting the duration it read.
lambdaPersists(duration) == duration = -1

\* AudiobookFileProxy::setMediaDuration: the value is written and synced.
setMediaDuration(f, duration) == [fileDuration EXCEPT ![f] = duration]

\* The lambda on the thread pool: read the duration, persist it (or log a
\* failure), stop the player, raise hasScanFinished.
scanLambda ==
    /\ threadPool > 0
    /\ threadPool' = threadPool - 1
    /\ LET duration == VlcGetDuration(scanMediaItem)
       IN fileDuration' = IF lambdaPersists(duration)
                          THEN setMediaDuration(currentlyScanning, duration)
                          ELSE fileDuration
    /\ scanVlc' = [scanVlc EXCEPT !.state = "stopped"]
    /\ hasScanFinished' = TRUE
    /\ UNCHANGED <<playerVars, eventVars, cacheVars, proxyVars, otherVars>>
    /\ UNCHANGED <<fileQueue, mutex, currentlyScanning, scanMediaItem,
                   calls, tasks, mediaProperty,
                   totalDuration, env, pushCount, probeLog>>

\* A pop that takes the newest entry instead of the oldest.
popLast(q) == SubSeq(q, 1, Len(q) - 1)

\* fileQueue.pop()
pop(q) == Tail(q)

\* The ticket of the entry a pop took out of q.
poppedTicket(q, after) ==
    CHOOSE n \in {q[i].ticket : i \in 1..Len(q)} :
        n \notin {after[i].ticket : i \in 1..Len(after)}

\* while(!hasScanFinished) msleep(10) has ended: pop, next iteration.
performScanPop(t) ==
    /\ tasks[t].pc = "polling"
    /\ hasScanFinished
    /\ fileQueue # <<>>
    /\ fileQueue' = pop(fileQueue)
    /\ tasks' = [tasks EXCEPT ![t].pc = "loop"]
    /\ probeLog' = Append(probeLog, <<"done", poppedTicket(fileQueue, fileQueue')>>)
    /\ UNCHANGED <<playerVars, eventVars, cacheVars, proxyVars, otherVars>>
    /\ UNCHANGED <<mutex, hasScanFinished, currentlyScanning, scanMediaItem,
                   scanVlc, threadPool, calls, fileDuration, mediaProperty,
                   totalDuration, env, pushCount>>

\* AudiobookProxy::handlePropertyScanFinished: the sum is stored as the
\* collection's duration.
handlePropertyScanFinished == SumDurations(getFilesForAudiobook)

\* PlayerScanTask::run after performScan has returned (by either path).
taskRunEnd(t) ==
    /\ tasks[t].pc \in {"finish", "returned"}
    /\ tasks' = [tasks EXCEPT ![t].pc = "done"]
    /\ totalDuration' = IF calls[t].kind = "book" THEN handlePropertyScanFinished
                        ELSE totalDuration
    /\ UNCHANGED <<playerVars, eventVars, cacheVars, proxyVars, otherVars>>
    /\ UNCHANGED <<fileQueue, mutex, hasScanFinished, currentlyScanning, scanMediaItem,
                   scanVlc, threadPool, calls, fileDuration, mediaProperty,
                   env, pushCount, probeLog>>

\* Every step of the scan subsystem that is not a new command from a caller.
ScanProgress ==
    \/ \E c \in CallIds : pushAndStartScanTask(c)
    \/ \E t \in CallIds : performScanLock(t) \/ performScanExit(t)
                          \/ performScanOpenFailed(t) \/ performScanMediaFailed(t)
                          \/ performScanPlay(t) \/ performScanAttach(t)
                          \/ performScanPop(t) \/ taskRunEnd(t)
    \/ vlcNowPlaying
    \/ scanLambda

ScanNext ==
    \/ \E c \in CallIds : addAudiobookCall(c)
    \/ \E c \in CallIds, f \in Files : addAudiobookFileCall(c, f)
    \/ \E c \in CallIds : pushAndStartScanTask(c)
    \/ \E t \in CallIds : performScanLock(t)
    \/ \E t \in CallIds : performScanExit(t)
    \/ \E t \in CallIds : performScanOpenFailed(t)
    \/ \E t \in CallIds : performScanMediaFailed(t)
    \/ \E t \in CallIds : performScanPlay(t)
    \/ \E t \in CallIds : performScanAttach(t)
    \/ \E t \in CallIds : performScanPop(t)
    \/ \E t \in CallIds : taskRunEnd(t)
    \/ vlcNowPlaying
    \/ scanLambda

Spec == Init /\ [][ScanNext]_vars

\* --------------------------------------------------- Core::ConcretePlayer

\* record.value("full_path") of a file record.
RecordPath(r) == <<"path", r>>

\* A step of the player is noted in lastOp.
noted(op, arg, state) ==
    lastOp' = [op |-> op, arg |-> arg, state |-> state, seq |-> 1 - lastOp.seq,
               played |-> lastOp.played \/ (op = "play" /\ mediaLoaded)]

\* A player command is noted in lastOp; the commands emit no signal of
\* PlayerEventHandler.
command(op, arg) ==
    /\ noted(op, arg, "")
    /\ emitted' = <<>>

\* loadMedia without its test of mediaLoaded.
loadNeverRefused == FALSE

\* The test at the top of loadMedia.
loadRefused == mediaLoaded

\* libvlc_media_player_play on the player's current media.
vlcPlay(media) == IF media # 0 THEN "Playing" ELSE playerState

\* libvlc_media_player_pause: pauses a playing player, resumes a paused one.
vlcPause ==
    IF playerState = "Playing" THEN "Paused"
    ELSE IF playerState = "Paused" THEN "Playing"
    ELSE playerState

\* libvlc_media_player_play with no input running: the engine opens an input
\* on the media at position 0 and finds out whether it can seek in it.
startInput(media) ==
    /\ playerState' = vlcPlay(media)
    /\ vlcTime' = 0
    /\ vlcSeekable' \in BOOLEAN

\* libvlc_media_player_play as ConcretePlayer::play calls it.
vlcPlayCall ==
    IF playerState \in {"Playing", "Paused"}
    THEN /\ playerState' = vlcPlay(playerMedia)
         /\ UNCHANGED <<vlcTime, vlcSeekable>>
    ELSE startInput(playerMedia)

\* ConcretePlayer::loadMedia. libvlc_media_player_set_media drops the input of
\* the media that was set before; the new media has announced no state yet.
loadMedia(r) ==
    /\ mediaLoaded \/ handlesCreated < MaxHandles
    /\ command("loadMedia", r)
    /\ IF loadRefused
       THEN UNCHANGED <<mediaLoaded, audiobookFileProxy, currentPath, mediaItem, autoPlay,
                        mediaCallbacks, handlesCreated, playerMedia, playerState,
                        proxyProperty, vlcTime, vlcSeekable, mediaState>>
       ELSE /\ audiobookFileProxy' = r
            /\ proxyProperty' = NullProperty
            /\ currentPath' = RecordPath(r)
            /\ handlesCreated' = handlesCreated + 1
            /\ mediaItem' = handlesCreated + 1
            /\ playerMedia' = mediaItem'
            /\ mediaCallbacks' = mediaCallbacks \cup {mediaItem'}
            /\ mediaLoaded' = TRUE
            /\ IF autoPlay
               THEN startInput(handlesCreated + 1)
               ELSE /\ playerState' = "NothingSpecial"
                    /\ vlcTime' = NoTime
                    /\ vlcSeekable' = FALSE
            /\ mediaState' = "NothingSpecial"
            /\ UNCHANGED autoPlay
    /\ mediaParsed' = (mediaParsed /\ loadRefused)
    /\ lastSeek' = <<>>
    /\ UNCHANGED <<volume, savedDuration, savedTime, savedCompleteness, selectedFile,
                   settingAudiobook, settingVolume, vlcVolume>>
    /\ UNCHANGED <<scanVars, cacheVars, proxyVars, otherVars>>

\* ConcretePlayer::releaseMedia: the flag is cleared before it is tested, so
\* libvlc_media_release is never reached.
releaseMedia ==
    /\ command("releaseMedia", 0)
    /\ mediaLoaded' = FALSE
    /\ UNCHANGED <<audiobookFileProxy, currentPath, mediaItem, autoPlay,
                   mediaCallbacks, handlesCreated, playerMedia, playerState>>
    /\ lastSeek' = <<>>
    /\ UNCHANGED <<volume, proxyProperty, savedDuration, savedTime, savedCompleteness,
                   selectedFile, settingAudiobook, settingVolume, vlcVolume, vlcTime,
                   vlcSeekable, mediaState, mediaParsed>>
    /\ UNCHANGED <<scanVars, cacheVars, proxyVars, otherVars>>

\* play without its test of mediaLoaded.
playAlways == TRUE

\* The test of ConcretePlayer::play.
playAllowed == mediaLoaded

\* ConcretePlayer::play
play ==
    /\ command("play", 0)
    /\ IF playAllowed
       THEN /\ vlcPlayCall
            /\ autoPlay' = TRUE
       ELSE UNCHANGED <<playerState, autoPlay, vlcTime, vlcSeekable>>
    /\ UNCHANGED mediaState
    /\ UNCHANGED <<mediaLoaded, audiobookFileProxy, currentPath, mediaItem,
                   mediaCallbacks, handlesCreated, playerMedia>>
    /\ lastSeek' = <<>>
    /\ UNCHANGED <<volume, proxyProperty, savedDuration, savedTime, savedCompleteness,
                   selectedFile, settingAudiobook, settingVolume, vlcVolume, mediaParsed>>
    /\ UNCHANGED <<scanVars, cacheVars, proxyVars, otherVars>>

\* ConcretePlayer::stop
stop ==
    /\ command("stop", 0)
    /\ playerState' = vlcPause
    /\ UNCHANGED <<mediaLoaded, audiobookFileProxy, currentPath, mediaItem, autoPlay,
                   mediaCallbacks, handlesCreated, playerMedia>>
    /\ lastSeek' = <<>>
    /\ UNCHANGED <<volume, proxyProperty, savedDuration, savedTime, savedCompleteness,
                   selectedFile, settingAudiobook, settingVolume, vlcVolume, vlcTime,
                   vlcSeekable, mediaState, mediaParsed>>
    /\ UNCHANGED <<scanVars, cacheVars, proxyVars, otherVars>>

PlayerNext ==
    \/ \E r \in Records : loadMedia(r)
    \/ releaseMedia
    \/ play
    \/ stop

\* The player and ProxyManager alone: no file has been scanned, no scan
\* command is issued.
PlayerSpecInit ==
    /\ Init
    /\ fileDuration = [f \in Files |-> 0]

PlayerSpec == PlayerSpecInit /\ [][PlayerNext]_vars

\* ------------------------------- the player's proxy and the event handler

\* PlayerEventHandler's signals.
NotifyPlayerState(r, isPlaying) ==
    [sig |-> "notifyPlayerState", record |-> r, isPlaying |-> isPlaying, time |-> 0]
NotifyPlayerTime(r, time) ==
    [sig |-> "notifyPlayerTime", record |-> r, isPlaying |-> FALSE, time |-> time]
NotifyMediaParsed(r) ==
    [sig |-> "notifyMediaParsed", record |-> r, isPlaying |-> FALSE, time |-> 0]
NotifyPlayerFinished(r) ==
    [sig |-> "notifyPlayerFinished", record |-> r, isPlaying |-> FALSE, time |-> 0]

\* An engine event that reaches a callback is noted in lastOp.
delivered(kind, arg, state) == noted(kind, arg, state)

\* AudiobookFileProxy::getMediaDuration of the player's proxy of record r,
\* whose MediaProperty is property.
proxyMediaDuration(r, property) ==
    IF savedDuration[r] > 0 THEN savedDuration[r]
    ELSE IF property.isNull THEN -1
    ELSE property.duration

\* AudiobookFileProxy::getCompleteness: the stored double, rounded.
getCompleteness(r) ==
    (2 * savedCompleteness[r].num + savedCompleteness[r].den)
        \div (2 * savedCompleteness[r].den)

\* calcCompleteness without its factor of 100.
calcFraction(currentTime, duration) == [num |-> currentTime, den |-> duration]

\* (double)currentTime / (double)duration * 100.0, kept as an exact fraction.
calcCompleteness(currentTime, duration) == [num |-> 100 * currentTime, den |-> duration]

\* saveCurrentTime that writes the completeness whenever a duration is known.
completenessAlwaysWritten(currentTime, duration, oldCompleteness) == duration > 0

\* The flag saveCurrentTime computes: a duration is known and the calculated
\* completeness is above the one getCompleteness reads.
completenessRaised(currentTime, duration, oldCompleteness) ==
    /\ duration > 0
    /\ 100 * currentTime > oldCompleteness * duration

\* saveCurrentTime that leaves the stored currentTime alone.
currentTimeKept(old, currentTime) == old

\* The value saveCurrentTime stores under "currentTime".
currentTimeStored(old, currentTime) == <<currentTime>>

\* AudiobookFileProxy::saveCurrentTime on the player's proxy. No completeness
\* function is set on a proxy that loadMedia made.
saveCurrentTime(r, currentTime) ==
    LET duration == proxyMediaDuration(r, proxyProperty)
    IN  /\ savedTime' = [savedTime EXCEPT ![r] = currentTimeStored(@, currentTime)]
        /\ savedCompleteness' =
              IF completenessRaised(currentTime, duration, getCompleteness(r))
              THEN [savedCompleteness EXCEPT ![r] = calcCompleteness(currentTime, duration)]
              ELSE savedCompleteness

\* AudiobookFileProxy::setAsCurrent on the player's proxy.
setAsCurrent(r) ==
    IF ~proxyProperty.isNull
    THEN /\ selectedFile' = [selectedFile EXCEPT ![AudiobookOf(r)] = RecordPath(r)]
         /\ settingAudiobook' = <<AudiobookOf(r)>>
    ELSE UNCHANGED <<selectedFile, settingAudiobook>>

\* setProperty that stores no duration.
durationKept(old, currentDuration) == old

\* The value setProperty leaves under "duration".
durationStored(old, currentDuration) ==
    IF currentDuration > 0 THEN currentDuration ELSE old

\* AudiobookFileProxy::setProperty on the player's proxy, with a property
\* that is not the null object.
setProperty(r, property) ==
    /\ proxyProperty' = property
    /\ savedDuration' = [savedDuration EXCEPT
                            ![r] = durationStored(@, proxyMediaDuration(r, property))]

\* hasNextFile that finds no row.
hasNextFileNever(r) == FALSE

\* AudiobookFileProxy::hasNextFile of the proxy of record r.
hasNextFile(r) ==
    \E next \in Records : /\ PositionOf(next) = PositionOf(r) + 1
                          /\ AudiobookOf(next) = AudiobookOf(r)

\* updateSeekPosition without its question to the engine.
seekUnconditional == TRUE

\* The tests of updateSeekPosition.
seekAllowed == mediaLoaded /\ vlcSeekable

\* The body of ConcretePlayer::updateSeekPosition.
seekTo(position) ==
    IF seekAllowed
    THEN /\ vlcTime' = position
         /\ lastSeek' = <<position>>
    ELSE /\ lastSeek' = <<>>
         /\ UNCHANGED vlcTime

\* ConcretePlayer::updateSeekPosition
updateSeekPosition(position) ==
    /\ command("updateSeekPosition", position)
    /\ seekTo(position)
    /\ UNCHANGED <<mediaLoaded, audiobookFileProxy, currentPath, mediaItem, autoPlay,
                   mediaCallbacks, handlesCreated, playerMedia, playerState>>
    /\ UNCHANGED <<volume, proxyProperty, savedDuration, savedTime, savedCompleteness,
                   selectedFile, settingAudiobook, settingVolume, vlcVolume,
                   vlcSeekable, mediaState, mediaParsed>>
    /\ UNCHANGED <<scanVars, cacheVars, proxyVars, otherVars>>

\* The body of ConcretePlayer::setVolume.
applyVolume(v) ==
    /\ volume' = v
    /\ vlcVolume' = IF mediaLoaded THEN v ELSE vlcVolume

\* ConcretePlayer::setVolume
setVolume(v) ==
    /\ command("setVolume", v)
    /\ applyVolume(v)
    /\ UNCHANGED <<mediaLoaded, audiobookFileProxy, currentPath, mediaItem, autoPlay,
                   mediaCallbacks, handlesCreated, playerMedia, playerState>>
    /\ lastSeek' = <<>>
    /\ UNCHANGED <<proxyProperty, savedDuration, savedTime, savedCompleteness,
                   selectedFile, settingAudiobook, settingVolume, vlcTime,
                   vlcSeekable, mediaState, mediaParsed>>
    /\ UNCHANGED <<scanVars, cacheVars, proxyVars, otherVars>>

\* Core::Setting::setVolume (the volume slider): the value is stored and
\* volumeUpdated reaches the lambda of ConcretePlayer::setupEventHandlers.
settingSetVolume(v) ==
    /\ command("Setting::setVolume", v)
    /\ settingVolume' = <<v>>
    /\ applyVolume(v)
    /\ UNCHANGED <<mediaLoaded, audiobookFileProxy, currentPath, mediaItem, autoPlay,
                   mediaCallbacks, handlesCreated, playerMedia, playerState>>
    /\ lastSeek' = <<>>
    /\ UNCHANGED <<proxyProperty, savedDuration, savedTime, savedCompleteness,
                   selectedFile, settingAudiobook, vlcTime,
                   vlcSeekable, mediaState, mediaParsed>>
    /\ UNCHANGED <<scanVars, cacheVars, proxyVars, otherVars>>

\* ------------------------------------------------------ the engine's events

\* The input of the playing media comes to its end: the engine's state
\* becomes Ended, or Stopped when the input is torn down.
vlcInputEnds(state) ==
    /\ playerState = "Playing"
    /\ playerState' = state
    /\ UNCHANGED <<mediaLoaded, audiobookFileProxy, currentPath, mediaItem, autoPlay,
                   mediaCallbacks, handlesCreated, playerMedia, lastOp>>
    /\ UNCHANGED <<volume, proxyProperty, savedDuration, savedTime, savedCompleteness,
                   selectedFile, settingAudiobook, settingVolume, vlcVolume, vlcTime,
                   vlcSeekable, mediaState, mediaParsed, emitted, lastSeek>>
    /\ UNCHANGED <<scanVars, cacheVars, proxyVars, otherVars>>

\* The stateChanged slot of PlayerEventHandler::setupPlayerCallbacks.
stateChangedSlot(newState) ==
    LET abFile == audiobookFileProxy
    IN  IF newState = "Playing"
        THEN /\ setAsCurrent(abFile)
             /\ emitted' = <<NotifyPlayerState(abFile, TRUE)>>
             /\ UNCHANGED <<savedTime, savedCompleteness>>
        ELSE IF newState \in {"Stopped", "Paused"}
        THEN /\ saveCurrentTime(abFile, vlcTime)
             /\ emitted' = <<NotifyPlayerState(abFile, FALSE)>>
             /\ UNCHANGED <<selectedFile, settingAudiobook>>
        ELSE /\ emitted' = <<NotifyPlayerState(abFile, FALSE)>>
             /\ UNCHANGED <<savedTime, savedCompleteness, selectedFile, settingAudiobook>>

\* libvlc_MediaStateChanged: the engine announces the state its player has
\* entered on the player's media; the callback of setupMediaCallbacks emits
\* stateChanged(newState).
MediaStateChanged ==
    /\ playerMedia \in mediaCallbacks
    /\ mediaState # playerState
    /\ mediaState' = playerState
    /\ delivered("stateChanged", 0, playerState)
    /\ stateChangedSlot(playerState)
    /\ lastSeek' = <<>>
    /\ UNCHANGED <<volume, proxyProperty, savedDuration, settingVolume, vlcVolume,
                   vlcTime, vlcSeekable, mediaParsed>>
    /\ UNCHANGED <<playerFields, scanVars, cacheVars, proxyVars, otherVars>>

\* The time-changed callback without its test of mediaLoaded.
timeAlwaysForwarded == TRUE

\* The test in the libvlc_MediaPlayerTimeChanged callback.
timeForwarded == mediaLoaded

\* libvlc_MediaPlayerTimeChanged: the playing input has moved on by one tick;
\* the callback of setupVLCCallbacks emits timeProgressed(getCurrentTime()),
\* which reaches the timeProgressed slot of PlayerEventHandler.
MediaPlayerTimeChanged ==
    /\ playerState = "Playing"
    /\ vlcTime + Tick <= BackendDuration(audiobookFileProxy)
    /\ vlcTime + Tick <= LastPosition
    /\ vlcTime' = vlcTime + Tick
    /\ delivered("timeChanged", vlcTime + Tick, "")
    /\ IF timeForwarded
       THEN /\ emitted' = <<NotifyPlayerTime(audiobookFileProxy, vlcTime + Tick)>>
            /\ saveCurrentTime(audiobookFileProxy, vlcTime + Tick)
       ELSE /\ emitted' = <<>>
            /\ UNCHANGED <<savedTime, savedCompleteness>>
    /\ UNCHANGED <<volume, proxyProperty, savedDuration, selectedFile, settingAudiobook,
                   settingVolume, vlcVolume, vlcSeekable, mediaState, mediaParsed>>
    /\ lastSeek' = <<>>
    /\ UNCHANGED <<playerFields, scanVars, cacheVars, proxyVars, otherVars>>

\* The parsedStatusChanged slot of PlayerEventHandler, for isParsed = true,
\* when getDurationInMs gives durationInMs.
parsedStatusChangedSlot(durationInMs) ==
    /\ setProperty(audiobookFileProxy, [isNull |-> FALSE, duration |-> durationInMs])
    /\ emitted' = <<NotifyMediaParsed(audiobookFileProxy)>>

\* The parsed callback without its call of updateSeekPosition.
resumeNever == FALSE

\* !audiobookFileProxy->currentTimeNull() in the parsed callback.
resumeWanted == savedTime[audiobookFileProxy] # <<>>

\* libvlc_MediaParsedChanged: the engine has parsed the media it has an input
\* on, and libvlc_media_get_duration gives durationInMs from then on (-1 when
\* the engine cannot tell). The callback of setupMediaCallbacks runs.
MediaParsedChanged(durationInMs) ==
    /\ playerMedia \in mediaCallbacks
    /\ ~mediaParsed
    /\ playerState # "NothingSpecial"
    /\ mediaParsed' = TRUE
    /\ delivered("parsedChanged", durationInMs, "")
    /\ IF mediaLoaded
       THEN /\ parsedStatusChangedSlot(durationInMs)
            /\ IF resumeWanted
               THEN seekTo(savedTime[audiobookFileProxy][1])
               ELSE /\ lastSeek' = <<>>
                    /\ UNCHANGED vlcTime
       ELSE /\ emitted' = <<>>
            /\ lastSeek' = <<>>
            /\ UNCHANGED <<proxyProperty, savedDuration, vlcTime>>
    /\ UNCHANGED <<volume, savedTime, savedCompleteness, selectedFile, settingAudiobook,
                   settingVolume, vlcVolume, vlcSeekable, mediaState>>
    /\ UNCHANGED <<playerFields, scanVars, cacheVars, proxyVars, otherVars>>

\* References libvlc holds on a media handle: the one libvlc_media_new_path
\* gave to loadMedia, which nothing releases, and the media player's.
mediaRefCount(h) == 1 + (IF playerMedia = h THEN 1 ELSE 0)

\* libvlc_MediaFreed: the last reference on a handle is dropped; the callback
\* of setupMediaCallbacks emits currentFileFinished, whose slot emits
\* notifyPlayerFinished.
MediaFreed(h) ==
    /\ h \in mediaCallbacks
    /\ mediaRefCount(h) = 0
    /\ delivered("freed", h, "")
    /\ emitted' = <<NotifyPlayerFinished(audiobookFileProxy)>>
    /\ UNCHANGED <<volume, proxyProperty, savedDuration, savedTime, savedCompleteness,
                   selectedFile, settingAudiobook, settingVolume, vlcVolume, vlcTime,
                   vlcSeekable, mediaState, mediaParsed>>
    /\ lastSeek' = <<>>
    /\ UNCHANGED <<playerFields, scanVars, cacheVars, proxyVars, otherVars>>

\* loadMedia, as long as the run has loads left.
loadMediaWithin(r) ==
    /\ handlesCreated < MaxLoads
    /\ loadMedia(r)

EventNext ==
    \/ \E r \in Records : loadMediaWithin(r)
    \/ releaseMedia
    \/ play
    \/ stop
    \/ \E state \in {"Ended", "Stopped"} : vlcInputEnds(state)
    \/ MediaStateChanged
    \/ MediaPlayerTimeChanged
    \/ \E known \in BOOLEAN :
          MediaParsedChanged(IF known THEN BackendDuration(audiobookFileProxy) ELSE -1)

EventSpec == PlayerSpecInit /\ [][EventNext]_vars

\* The progress slider: the player's commands and the engine's own moves, with
\* no event delivered.
SeekNext ==
    \/ \E r \in Records : loadMedia(r)
    \/ releaseMedia
    \/ play
    \/ stop
    \/ \E position \in SeekTargets : updateSeekPosition(position)
    \/ \E state \in {"Ended", "Stopped"} : vlcInputEnds(state)

SeekSpec == PlayerSpecInit /\ [][SeekNext]_vars

\* The volume path: the player's load cycle, ConcretePlayer::setVolume and
\* the volume slider.
VolumeNext ==
    \/ \E r \in Records : loadMedia(r)
    \/ releaseMedia
    \/ \E v \in Volumes : setVolume(v)
    \/ \E v \in Volumes : settingSetVolume(v)

VolumeSpec == PlayerSpecInit /\ [][VolumeNext]_vars

\* ------------------------------------------------------------ ProxyManager

\* QHash::size
size(cache) == Cardinality({k \in DOMAIN cache : cache[k].id # 0})

\* A lookup that never finds its key.
containsNever(cache, key) == FALSE

\* QHash::contains
contains(cache, key) == cache[key].id # 0

\* A call is noted in lastGet.
got(cache, key, rev, proxy) ==
    lastGet' = [cache |-> cache, key |-> key, rev |-> rev, proxy |-> proxy]

\* The test before the insert in getAudiobookFileProxy.
cacheOverfull == size(abFileCache) > CACHE_SIZE_MAX

\* A clear that removes nothing.
clearedNothing(cache) == cache

\* QHash::clear
clearedCache(cache) == [k \in DOMAIN cache |-> NoProxy]

\* The shared_ptr copies of the proxies in a cache that were handed out: the
\* objects live on in their callers' hands when the cache lets go of them.
handedOut(cache) ==
    {[id |-> cache[k].id, key |-> k, rev |-> cache[k].rev, callback |-> cache[k].callback] :
        k \in {c \in DOMAIN cache : cache[c].id # 0}}

\* The proxies that leave the cache when it goes from cache to after.
droppedBy(cache, after) ==
    {p \in handedOut(cache) : after[p.key].id # p.id}

\* ProxyManager::getAudiobookFileProxy with a record of the key in revision rev.
getAudiobookFileProxy(key, rev) ==
    /\ IF contains(abFileCache, key)
       THEN /\ got("file", key, rev, abFileCache[key].id)
            /\ UNCHANGED <<abFileCache, proxiesMade, droppedProxies>>
       ELSE /\ proxiesMade < MaxProxies
            /\ proxiesMade' = proxiesMade + 1
            /\ LET kept == IF cacheOverfull THEN clearedCache(abFileCache)
                           ELSE abFileCache
               IN  /\ abFileCache' =
                         [kept EXCEPT ![key] = [id |-> proxiesMade + 1, rev |-> rev,
                                                callback |-> FALSE]]
                   /\ droppedProxies' = droppedProxies \cup droppedBy(abFileCache, kept)
            /\ got("file", key, rev, proxiesMade + 1)
    /\ UNCHANGED loadedAudiobooks
    /\ UNCHANGED <<scanVars, playerVars, eventVars, proxyVars, otherVars>>

\* ProxyManager::getAudiobookProxy with a record of the id in revision rev.
getAudiobookProxy(key, rev) ==
    /\ IF contains(loadedAudiobooks, key)
       THEN /\ got("audiobook", key, rev, loadedAudiobooks[key].id)
            /\ UNCHANGED <<loadedAudiobooks, proxiesMade>>
       ELSE /\ proxiesMade < MaxProxies
            /\ proxiesMade' = proxiesMade + 1
            /\ loadedAudiobooks' =
                  [loadedAudiobooks EXCEPT
                      ![key] = [id |-> proxiesMade + 1, rev |-> rev, callback |-> FALSE]]
            /\ got("audiobook", key, rev, proxiesMade + 1)
    /\ UNCHANGED <<abFileCache, droppedProxies>>
    /\ UNCHANGED <<scanVars, playerVars, eventVars, proxyVars, otherVars>>

\* ProxyManager::clearCache
clearCache ==
    /\ abFileCache' = clearedCache(abFileCache)
    /\ droppedProxies' = droppedProxies \cup droppedBy(abFileCache, abFileCache')
    /\ got("clear", 0, 0, 0)
    /\ UNCHANGED <<loadedAudiobooks, proxiesMade>>
    /\ UNCHANGED <<scanVars, playerVars, eventVars, proxyVars, otherVars>>

\* AudiobookFileProxy::setTotalDurationUpdateFunction on the cached proxy of
\* the key, as filesForAudiobookByDb calls it on the proxies it was handed.
setTotalDurationUpdateFunction(key) ==
    /\ contains(abFileCache, key)
    /\ ~abFileCache[key].callback
    /\ abFileCache' = [abFileCache EXCEPT ![key].callback = TRUE]
    /\ got("attach", key, 0, abFileCache[key].id)
    /\ UNCHANGED <<loadedAudiobooks, proxiesMade, droppedProxies>>
    /\ UNCHANGED <<scanVars, playerVars, eventVars, proxyVars, otherVars>>

CacheNext ==
    \/ \E key \in Keys, rev \in Revisions : getAudiobookFileProxy(key, rev)
    \/ \E key \in Audiobooks, rev \in Revisions : getAudiobookProxy(key, rev)
    \/ clearCache
    \/ \E key \in Keys : setTotalDurationUpdateFunction(key)

CacheSpec == PlayerSpecInit /\ [][CacheNext]_vars

\* ------------------------------------- ProxyManager called by two threads

\* getAudiobookFileProxy up to the end of its lookup, on thread t: a key the
\* cache contains is returned from it; a missing key sends the thread into
\* the else branch. ProxyManager takes no lock, so the other thread may run
\* between this step and the next.
getLookup(t, key, rev) ==
    /\ getCalls[t].pc \in {"idle", "returned"}
    /\ getCalls' = [getCalls EXCEPT ![t] =
                       IF contains(abFileCache, key)
                       THEN [pc |-> "returned", key |-> key, rev |-> rev,
                             proxy |-> abFileCache[key].id]
                       ELSE [pc |-> "insert", key |-> key, rev |-> rev, proxy |-> 0]]
    /\ UNCHANGED cacheVars
    /\ UNCHANGED <<audiobookDuration, audiobookCompleteness, lastNext, lastSave, unsynced>>
    /\ UNCHANGED <<scanVars, playerVars, eventVars, otherVars>>

\* The else branch of getAudiobookFileProxy on thread t: the clear of an
\* overfull cache, the construction of the proxy and QHash::insert, which
\* replaces whatever the key holds by then.
getInsert(t) ==
    /\ getCalls[t].pc = "insert"
    /\ proxiesMade < MaxProxies
    /\ proxiesMade' = proxiesMade + 1
    /\ LET key == getCalls[t].key
           kept == IF cacheOverfull THEN clearedCache(abFileCache) ELSE abFileCache
       IN  /\ abFileCache' =
                 [kept EXCEPT ![key] = [id |-> proxiesMade + 1, rev |-> getCalls[t].rev,
                                        callback |-> FALSE]]
           /\ droppedProxies' = droppedProxies \cup droppedBy(abFileCache, abFileCache')
    /\ getCalls' = [getCalls EXCEPT ![t].pc = "returned", ![t].proxy = proxiesMade + 1]
    /\ UNCHANGED <<loadedAudiobooks, lastGet>>
    /\ UNCHANGED <<audiobookDuration, audiobookCompleteness, lastNext, lastSave, unsynced>>
    /\ UNCHANGED <<scanVars, playerVars, eventVars, otherVars>>

RaceNext ==
    \/ \E t \in GetThreads, key \in Keys, rev \in Revisions : getLookup(t, key, rev)
    \/ \E t \in GetThreads : getInsert(t)

RaceSpec == PlayerSpecInit /\ [][RaceNext]_vars

\* ------------------------------ AudiobookFileProxy and AudiobookProxy calls

\* The times saveCurrentTime is called with: positions within the durations
\* of the records and beyond the shortest.
SaveTimes == {0, Tick, 2 * Tick, 3 * Tick}

\* The durations setMediaDuration is called with for record r: what
\* libvlc_media_get_duration gives, -1 when the engine cannot tell yet.
ProbedDurations(r) == {-1, BackendDuration(r)}

\* SELECT * FROM audiobook_file WHERE audiobook_id = ?, in row order: the
\* file list of the AudiobookProxy.
filesForAudiobookByDb(a) ==
    SelectSeq([i \in 1..NumRecords |-> i], LAMBDA r : AudiobookOf(r) = a)

\* AudiobookFileProxy::getCurrentTime: toLongLong of a missing value is 0.
getCurrentTime(times, r) == IF times[r] = <<>> THEN 0 ELSE times[r][1]

RECURSIVE totalProgress(_, _)
\* The loop of AudiobookProxy::updateCompletionStatus over the file list.
totalProgress(times, list) ==
    IF list = <<>> THEN 0
    ELSE getCurrentTime(times, Head(list)) + totalProgress(times, Tail(list))

RECURSIVE sumPositiveDurations(_, _)
\* AudiobookProxy::updateTotalDuration: the sum of the children's durations
\* that are > 0.
sumPositiveDurations(durations, list) ==
    IF list = <<>> THEN 0
    ELSE (IF durations[Head(list)] > 0 THEN durations[Head(list)] ELSE 0)
         + sumPositiveDurations(durations, Tail(list))

RECURSIVE sumMediaDurations(_, _)
\* The loop of AudiobookProxy::handlePropertyScanFinished over the file list
\* of proxies with no MediaProperty: each getMediaDuration is added, a -1 too.
sumMediaDurations(durations, list) ==
    IF list = <<>> THEN 0
    ELSE (IF durations[Head(list)] > 0 THEN durations[Head(list)] ELSE -1)
         + sumMediaDurations(durations, Tail(list))

\* round(num / den) for den # 0: to the nearest integer, halves away from 0.
round(num, den) ==
    LET n == IF den < 0 THEN 0 - num ELSE num
        d == IF den < 0 THEN 0 - den ELSE den
    IN  IF n >= 0 THEN (2 * n + d) \div (2 * d)
        ELSE 0 - ((2 * (0 - n) + d) \div (2 * d))

\* (int)round(x) for x = totalProgress / 0.0, which is not a number or
\* infinite: the conversion is undefined. An x86-64 build stores INT_MIN; an
\* AArch64 build stores 0 for NaN and saturates for an infinity.
intOfNonFinite(totalProgressValue) ==
    IF totalProgressValue = 0 THEN {-2147483647 - 1, 0}
    ELSE IF totalProgressValue > 0 THEN {-2147483647 - 1, 2147483647}
    ELSE {-2147483647 - 1}

\* The percentage updateCompletionStatus computes from the total progress and
\* getDuration(): there is no test of the divisor.
percentages(totalProgressValue, duration) ==
    IF duration = 0 THEN intOfNonFinite(totalProgressValue)
    ELSE {round(100 * totalProgressValue, duration)}

\* AudiobookProxy::updateCompletionStatus of audiobook a, with the files'
\* stored times being times.
updateCompletionStatus(a, times) ==
    \E percentage \in percentages(totalProgress(times, filesForAudiobookByDb(a)),
                                  audiobookDuration[a]) :
        audiobookCompleteness' = [audiobookCompleteness EXCEPT ![a] = percentage]

\* AudiobookFileProxy::saveCurrentTime(currentTime) on a proxy of record r
\* that has no MediaProperty; completenssFunctionSet tells whether it is one
\* of the proxies an AudiobookProxy attached its update functions to. The
\* function is called only when the completeness is written.
fileSaveCurrentTime(r, currentTime, completenssFunctionSet) ==
    /\ saveCurrentTime(r, currentTime)
    /\ IF /\ completenessRaised(currentTime, proxyMediaDuration(r, proxyProperty),
                                getCompleteness(r))
          /\ completenssFunctionSet
       THEN updateCompletionStatus(AudiobookOf(r), savedTime')
       ELSE UNCHANGED audiobookCompleteness
    /\ UNCHANGED <<getCalls, audiobookDuration, lastNext>>
    /\ UNCHANGED <<volume, proxyProperty, savedDuration, selectedFile, settingAudiobook,
                   settingVolume, vlcVolume, vlcTime, vlcSeekable, mediaState,
                   mediaParsed, emitted, lastSeek>>
    /\ UNCHANGED <<scanVars, playerVars, cacheVars, otherVars>>

\* saveCurrentTime on a proxy an AudiobookProxy may have attached its update
\* functions to.
childSaveCurrentTime(r, currentTime, completenssFunctionSet) ==
    /\ fileSaveCurrentTime(r, currentTime, completenssFunctionSet)
    /\ UNCHANGED <<lastSave, unsynced>>

\* saveCurrentTime on a proxy with no update functions (the player's), the
\* call being followed in lastSave. Its setValue calls are followed by no
\* sync(): the QSettings object writes them out when it is destroyed or when
\* the event loop gets to it.
notedSaveCurrentTime(r, currentTime) ==
    /\ fileSaveCurrentTime(r, currentTime, FALSE)
    /\ lastSave' = [record |-> r, time |-> currentTime]
    /\ unsynced' = [unsynced EXCEPT ![r] = TRUE]

\* AudiobookFileProxy::setMediaDuration(duration) on a proxy of record r: the
\* value is written and synced; no update function is called.
proxySetMediaDuration(r, duration) ==
    /\ savedDuration' = [savedDuration EXCEPT ![r] = duration]
    /\ unsynced' = [unsynced EXCEPT ![r] = FALSE]
    /\ UNCHANGED <<getCalls, audiobookDuration, audiobookCompleteness, lastNext, lastSave>>
    /\ UNCHANGED <<volume, proxyProperty, savedTime, savedCompleteness, selectedFile,
                   settingAudiobook, settingVolume, vlcVolume, vlcTime, vlcSeekable,
                   mediaState, mediaParsed, emitted, lastSeek>>
    /\ UNCHANGED <<scanVars, playerVars, cacheVars, otherVars>>

\* AudiobookProxy::handlePropertyScanFinished of audiobook a, as a
\* PlayerScanTask calls it at its end.
proxyScanFinished(a) ==
    /\ audiobookDuration' =
          [audiobookDuration EXCEPT
              ![a] = sumMediaDurations(savedDuration, filesForAudiobookByDb(a))]
    /\ UNCHANGED <<getCalls, audiobookCompleteness, lastNext, lastSave, unsynced>>
    /\ UNCHANGED <<scanVars, playerVars, eventVars, cacheVars, otherVars>>

\* SELECT * FROM audiobook_file WHERE position = ? AND audiobook_id = ?
selectByPosition(position, audiobookId) ==
    SelectSeq([i \in 1..NumRecords |-> i],
              LAMBDA n : PositionOf(n) = position /\ AudiobookOf(n) = audiobookId)

\* AudiobookFileProxy::getNextFile of a proxy of record r: the record of the
\* proxy returned (0 for the default-constructed one) and its isNull.
getNextFile(r) ==
    LET rows == selectByPosition(PositionOf(r) + 1, AudiobookOf(r))
    IN  IF ~hasNextFile(r) THEN [next |-> 0, isNull |-> TRUE]
        ELSE IF rows # <<>> THEN [next |-> Head(rows), isNull |-> FALSE]
        ELSE [next |-> 0, isNull |-> TRUE]

\* A call of hasNextFile and one of getNextFile on a proxy of record r.
fileGetNextFile(r) ==
    /\ lastNext' = [record |-> r, has |-> hasNextFile(r),
                    next |-> getNextFile(r).next,
                    isNull |-> getNextFile(r).isNull]
    /\ UNCHANGED <<getCalls, audiobookDuration, audiobookCompleteness, lastSave, unsynced>>
    /\ UNCHANGED <<scanVars, playerVars, eventVars, cacheVars, otherVars>>

ProxyNext ==
    \/ \E r \in Records, currentTime \in SaveTimes, completenssFunctionSet \in BOOLEAN :
          childSaveCurrentTime(r, currentTime, completenssFunctionSet)
    \/ \E r \in Records : \E duration \in ProbedDurations(r) :
          proxySetMediaDuration(r, duration)
    \/ \E a \in Audiobooks : proxyScanFinished(a)

ProxySpec == PlayerSpecInit /\ [][ProxyNext]_vars

\* One file proxy after another is given times and durations to store.
SaveNext ==
    \/ \E r \in Records, currentTime \in SaveTimes : notedSaveCurrentTime(r, currentTime)
    \/ \E r \in Records : \E duration \in ProbedDurations(r) :
          proxySetMediaDuration(r, duration)

SaveSpec == PlayerSpecInit /\ [][SaveNext]_vars

\* ------------------------------- the event thread beside the UI thread

\* libvlc's thread raises the MediaStateChanged event of the player's media
\* and enters the callback of setupMediaCallbacks, which has read new_state
\* from the event; the UI thread may run before the callback goes on.
stateEventRaised ==
    /\ pendingEvent = NoEvent
    /\ playerMedia \in mediaCallbacks
    /\ mediaState # playerState
    /\ mediaState' = playerState
    /\ pendingEvent' = [media |-> playerMedia, state |-> playerState]
    /\ UNCHANGED <<volume, proxyProperty, savedDuration, savedTime, savedCompleteness,
                   selectedFile, settingAudiobook, settingVolume, vlcVolume, vlcTime,
                   vlcSeekable, mediaParsed, emitted, lastSeek>>
    /\ UNCHANGED <<playerVars, scanVars, cacheVars, proxyVars, vlcHandles, libraryVars>>

\* The callback goes on: it emits stateChanged(newState) on the player, and
\* the slot of PlayerEventHandler runs on the fields the player has by now.
stateEventHandled ==
    /\ pendingEvent # NoEvent
    /\ pendingEvent' = NoEvent
    /\ delivered("stateChanged", 0, pendingEvent.state)
    /\ stateChangedSlot(pendingEvent.state)
    /\ lastSeek' = <<>>
    /\ UNCHANGED <<volume, proxyProperty, savedDuration, settingVolume, vlcVolume,
                   vlcTime, vlcSeekable, mediaState, mediaParsed>>
    /\ UNCHANGED <<playerFields, scanVars, cacheVars, proxyVars, vlcHandles, libraryVars>>

\* The player's commands on the UI thread and the state events of libvlc's
\* thread.
StaleNext ==
    \/ \E r \in Records : loadMedia(r)
    \/ releaseMedia
    \/ play
    \/ stop
    \/ stateEventRaised
    \/ stateEventHandled

StaleSpec == PlayerSpecInit /\ [][StaleNext]_vars

\* ----------------------------------- registering and rescanning files

\* The 1-based index of path p in the sorted list of the paths S.
positionIn(p, S) == Cardinality({q \in S : q <= p})

\* SELECT * FROM audiobook_file WHERE audiobook_id = ?: the paths with a row.
audiobookFileRows == {p \in Paths : audiobook_file[p] # 0}

\* What AudiobookProxy::getFilesForAudiobook returns, forced or not: the cache when it holds
\* anything, else the rows of the table, which it also puts into the cache.
filesListed ==
    IF fileListCache # {} THEN fileListCache ELSE audiobookFileRows

\* A caller (the constructor of AudiobookProxy, the file list view) asks for
\* the files of the audiobook.
listFiles ==
    /\ fileListCache' = filesListed
    /\ UNCHANGED <<onDisk, audiobook_file, vlcHandles, pendingEvent>>
    /\ UNCHANGED <<scanVars, playerVars, eventVars, cacheVars, proxyVars>>

\* An audio file is put into the audiobook's directory.
fileAppears(p) ==
    /\ p \notin onDisk
    /\ onDisk' = onDisk \cup {p}
    /\ UNCHANGED <<audiobook_file, fileListCache, vlcHandles, pendingEvent>>
    /\ UNCHANGED <<scanVars, playerVars, eventVars, cacheVars, proxyVars>>

\* AudiobookFile::registerAudioBook on the directory: position counts every
\* path of the sorted list, and a path gets a row only when it has none.
registerAudioBook ==
    /\ audiobook_file' =
           [p \in Paths |->
               IF p \in onDisk /\ audiobook_file[p] = 0
               THEN positionIn(p, onDisk)
               ELSE audiobook_file[p]]
    /\ UNCHANGED <<onDisk, fileListCache, vlcHandles, pendingEvent>>
    /\ UNCHANGED <<scanVars, playerVars, eventVars, cacheVars, proxyVars>>

\* The table after AudiobookProxy::insertFiles(filePathList) when
\* getFilesForAudiobook returns the paths `listed`: a listed path has its
\* row updated, another path is inserted, which fails when full_path (the
\* primary key) has a row already.
insertFiles(listed, filePathList) ==
    LET currentFilePaths == listed \cup filePathList
    IN  [p \in Paths |->
            IF p \in listed
            THEN IF audiobook_file[p] # 0
                 THEN positionIn(p, currentFilePaths)
                 ELSE 0
            ELSE IF p \in filePathList /\ audiobook_file[p] = 0
                 THEN positionIn(p, currentFilePaths)
                 ELSE audiobook_file[p]]

\* AudiobookProxy::rescan: the files of the directory that are not among the
\* listed ones are inserted.  With an empty cache and an empty table, the
\* getFileForPath of the second round caches the one row of the first.
rescan ==
    LET listed == filesListed      \* getFilesForAudiobook()
        fileToInsert == onDisk \ listed
    IN  /\ audiobook_file' = insertFiles(listed, fileToInsert)
        /\ fileListCache' =
               IF listed # {} THEN listed
               ELSE {p \in fileToInsert : positionIn(p, fileToInsert) = 1}
        /\ UNCHANGED <<onDisk, vlcHandles, pendingEvent>>
        /\ UNCHANGED <<scanVars, playerVars, eventVars, cacheVars, proxyVars>>

RescanNext ==
    \/ \E p \in Paths : fileAppears(p)
    \/ registerAudioBook
    \/ listFiles
    \/ rescan

RescanSpec == Init /\ [][RescanNext]_vars

\* ------------------------------------------- construction of the engines

\* Core::ConcretePlayer::ConcretePlayer when libvlc_new gives inst and
\* libvlc_media_player_new gives mediaPlayer (FALSE = NULL). Neither result is
\* tested; with a NULL among them the constructor goes on to
\* libvlc_media_player_new(NULL) or libvlc_media_player_event_manager(NULL) and
\* libvlc_event_attach, whose behaviour is undefined: the process dies there or
\* the constructor completes.
constructConcretePlayer(inst, mediaPlayer) ==
    /\ vlcHandles["player"].stage = "none"
    /\ \E stage \in (IF inst /\ mediaPlayer THEN {"built"} ELSE {"built", "crashed"}) :
          vlcHandles' = [vlcHandles EXCEPT !["player"] =
                            [stage |-> stage, inst |-> inst,
                             mediaPlayer |-> inst /\ mediaPlayer]]
    /\ UNCHANGED <<scanVars, playerVars, eventVars, cacheVars, proxyVars, pendingEvent,
                   libraryVars>>

\* Core::ScanPlayer::ScanPlayer: a NULL inst is thrown on, a NULL mediaPlayer
\* is logged and construction goes on.
constructScanPlayer(inst, mediaPlayer) ==
    /\ vlcHandles["scan"].stage = "none"
    /\ vlcHandles' = [vlcHandles EXCEPT !["scan"] =
                         IF ~inst THEN [stage |-> "aborted", inst |-> FALSE,
                                        mediaPlayer |-> FALSE]
                         ELSE [stage |-> "built", inst |-> TRUE,
                               mediaPlayer |-> mediaPlayer]]
    /\ UNCHANGED <<scanVars, playerVars, eventVars, cacheVars, proxyVars, pendingEvent,
                   libraryVars>>

\* The component has been constructed and holds both handles.
engineReady(c) == vlcHandles[c] = Built

\* An operation of a constructed component passes its NULL handle to libvlc
\* (loadMedia: libvlc_media_new_path, libvlc_media_player_set_media;
\* performScan: libvlc_media_player_set_media), which dereferences it: the
\* behaviour is undefined, the process dies or goes on.
libvlcCallOnNull(c) ==
    /\ vlcHandles[c].stage = "built"
    /\ ~(vlcHandles[c].inst /\ vlcHandles[c].mediaPlayer)
    /\ \E stage \in {"built", "crashed"} :
          vlcHandles' = [vlcHandles EXCEPT ![c].stage = stage]
    /\ UNCHANGED <<scanVars, playerVars, eventVars, cacheVars, proxyVars, pendingEvent,
                   libraryVars>>

\* The program before its two engines are constructed.
ConstructInit ==
    /\ FieldsInit
    /\ fileDuration = [f \in Files |-> 0]
    /\ vlcHandles = [c \in Components |-> NotBuilt]

\* Construction of the two components, and the player's commands once the
\* player is constructed.
ConstructNext ==
    \/ \E inst \in BOOLEAN, mediaPlayer \in BOOLEAN :
          constructConcretePlayer(inst, mediaPlayer)
    \/ \E inst \in BOOLEAN, mediaPlayer \in BOOLEAN :
          constructScanPlayer(inst, mediaPlayer)
    \/ \E c \in Components : libvlcCallOnNull(c)
    \/ (engineReady("player") /\ PlayerNext)

ConstructSpec == ConstructInit /\ [][ConstructNext]_vars

\* The player's load cycle with getNextFile called on proxies of the records.
NextFileNext ==
    \/ \E r \in Records : loadMedia(r)
    \/ releaseMedia
    \/ play
    \/ stop
    \/ \E r \in Records : fileGetNextFile(r)

NextFileSpec == PlayerSpecInit /\ [][NextFileNext]_vars

\* =================================================================== claims

\* The children of the collection that are unscanned, in child-list order.
UnscannedChildren == SelectSeq(getFilesForAudiobook, LAMBDA f : getMediaDuration(f) <= 0)

RECURSIVE SumBackend(_)
SumBackend(list) ==
    IF list = <<>> THEN 0 ELSE BackendDuration(Head(list)) + SumBackend(Tail(list))

\* C1: for a collection whose children were all unscanned at addAudiobook and
\* whose files all open and play with a positive duration, once the task of
\* that call has drained the queue and finished, every child has a persisted
\* duration equal to the backend's and the collection's totalDuration is
\* their sum.
C1_ScanPersistsDurations ==
    \A t \in CallIds :
        ( /\ calls[t].kind = "book"
          /\ calls[t].allUnscanned
          /\ tasks[t].pc = "done"
          /\ fileQueue = <<>>
          /\ \A f \in Files : env[f] = "ok" )
        => /\ \A f \in Files : fileDuration[f] > 0 /\ fileDuration[f] = BackendDuration(f)
           /\ totalDuration = SumBackend(getFilesForAudiobook)

\* C2: once performScan has given up on an entry whose file could not be
\* opened (or whose media could not be created), that entry is no longer in
\* the queue and the queue mutex is free for the worker and for a later
\* addAudiobookFile of the same record.
C2_FailedEntryDropped ==
    \A t \in CallIds :
        tasks[t].failed # 0
        => /\ \A i \in 1..Len(fileQueue) : fileQueue[i].ticket # tasks[t].failed
           /\ mutex = FALSE

\* C3: whatever the backend does once a file has been opened (the media
\* reaches Playing or never does) and however its now-playing event
\* interleaves with the worker's play, attach and poll, every pushed record
\* is removed in the end: while the queue is not empty, some step of the scan
\* subsystem other than a new command is possible.
C3_QueueAlwaysDrains ==
    (fileQueue # <<>> /\ \A t \in CallIds : tasks[t].failed = 0)
    => ENABLED ScanProgress

\* The number of events of a kind among the first n of the probe log.
LogCount(kind, n) == Cardinality({j \in 1..n : probeLog[j][1] = kind})

\* C4: probes start and complete in push order: the k-th probe to start is
\* that of the k-th push, the k-th entry removed is the k-th pushed, and the
\* probe of an entry starts only after every earlier pushed entry has been
\* probed and removed.
C4_FifoProbes ==
    \A i \in 1..Len(probeLog) :
        LET kind == probeLog[i][1]
            n == probeLog[i][2]
        IN /\ kind = "start" =>
                /\ LogCount("start", i - 1) = n - 1
                /\ \A a \in 1..(n - 1) : \E j \in 1..(i - 1) : probeLog[j] = <<"done", a>>
           /\ kind = "done" =>
                /\ LogCount("done", i - 1) = n - 1
                /\ \E j \in 1..(i - 1) : probeLog[j] = <<"start", n>>

\* C4 witness: the probe of the second pushed entry has started.
C4_Witness ==
    \E i \in 1..Len(probeLog) : probeLog[i] = <<"start", 2>>

\* C5: no record is in the scan queue twice.
C5_NoDuplicateInQueue ==
    \A i, j \in 1..Len(fileQueue) :
        i # j => fileQueue[i].file # fileQueue[j].file

\* C6: the push of addAudiobook appends exactly the children whose duration
\* is <= 0, in child-list order.
C6_CollectionPushesUnscanned ==
    [][ \A c \in CallIds :
            (calls[c].kind = "book" /\ calls[c].pc = "lock" /\ calls'[c].pc = "done")
            => QueueFiles(fileQueue') = QueueFiles(fileQueue) \o UnscannedChildren ]_vars

\* C7: addAudiobookFile on a record with a duration > 0 returns with the
\* queue unchanged and never starts a task; on a record with duration <= 0
\* its push appends exactly that record at the tail of the queue.
C7_EnqueueFile ==
    [][ \A c \in CallIds :
          /\ ( /\ calls[c].kind = "none"
               /\ calls'[c].kind = "file"
               /\ getMediaDuration(calls'[c].file) > 0 )
             => /\ calls'[c].pc = "done"
                /\ fileQueue' = fileQueue
                /\ tasks' = tasks
          /\ ( /\ calls[c].kind = "none"
               /\ calls'[c].kind = "file"
               /\ getMediaDuration(calls'[c].file) <= 0 )
             => calls'[c].pc = "lock"
          /\ (calls[c].kind = "file" /\ calls[c].pc = "done" /\ tasks[c].pc = "none")
             => tasks'[c].pc = "none"
          /\ (calls[c].kind = "file" /\ calls[c].pc = "lock" /\ calls'[c].pc = "done")
             => /\ QueueFiles(fileQueue') = Append(QueueFiles(fileQueue), calls[c].file)
                /\ getMediaDuration(calls[c].file) <= 0 ]_vars

\* C7 witness: one addAudiobookFile call has returned on a scanned record
\* without a task, another has pushed its unscanned record.
C7_Witness ==
    \E c, d \in CallIds :
        /\ calls[c].kind = "file" /\ calls[c].pc = "done" /\ tasks[c].pc = "none"
        /\ getMediaDuration(calls[c].file) > 0
        /\ calls[d].kind = "file" /\ tasks[d].pc = "queued"
        /\ Len(fileQueue) > 0
        /\ fileQueue[Len(fileQueue)].file = calls[d].file

\* C8: at most one task is probing (between libvlc_media_player_play and
\* the pop of its entry) at any moment.
C8_OneProbeAtATime == Cardinality(Probing) <= 1

\* C8 witness: two tasks have been started; one is probing while the other
\* waits for the mutex.
C8_Witness ==
    \E t, u \in CallIds :
        /\ t # u
        /\ tasks[t].pc = "polling"
        /\ tasks[u].pc = "queued"

\* C9: handlePropertyScanFinished runs only when every child of the
\* collection has a duration > 0.
C9_FinishedOnlyWhenAllScanned ==
    [][ \A t \in CallIds :
            ( /\ calls[t].kind = "book"
              /\ tasks[t].pc \in {"finish", "returned"}
              /\ tasks'[t].pc = "done" )
            => allFileDurationScanned ]_vars

\* A loadMedia command is the step taken.
LoadMediaStep == lastOp'.seq # lastOp.seq /\ lastOp'.op = "loadMedia"

\* C10: loadMedia while a media item is loaded changes neither the current
\* record, the current path, the media handle, the registered callbacks nor
\* the loaded flag; loadMedia with no media loaded loads its record.
C10_LoadWhileLoadedIsNoOp ==
    [][ /\ (LoadMediaStep /\ mediaLoaded)
           => UNCHANGED <<audiobookFileProxy, currentPath, mediaItem, mediaCallbacks,
                          mediaLoaded, playerMedia, handlesCreated, playerState, autoPlay>>
        /\ (LoadMediaStep /\ ~mediaLoaded)
           => /\ audiobookFileProxy' = lastOp'.arg
              /\ currentPath' = RecordPath(lastOp'.arg)
              /\ mediaLoaded'
              /\ mediaItem' \notin mediaCallbacks
              /\ mediaItem' \in mediaCallbacks' ]_vars

\* C10 witness: the last command was a loadMedia of another record than the
\* one that is loaded, and the loaded one is still the current record.
C10_Witness ==
    /\ lastOp.op = "loadMedia"
    /\ mediaLoaded
    /\ audiobookFileProxy # 0
    /\ audiobookFileProxy # lastOp.arg
    /\ currentPath = RecordPath(audiobookFileProxy)

\* ---------------------------------------------- claims on the player's events

\* The step taken is the delivery of the engine event op (a command, for the
\* commands); see lastOp.
StepOf(op) == lastOp'.seq # lastOp.seq /\ lastOp'.op = op

\* The step taken is a MediaStateChanged event that announces state.
StateChangedStep(state) == StepOf("stateChanged") /\ lastOp'.state = state

\* The signal is among the signals emitted.
Emits(signals, signal) == \E i \in DOMAIN signals : signals[i] = signal

\* C11: when the engine announces the end of the loaded record's media,
\* notifyPlayerFinished(record) is emitted, and with no next record in the
\* audiobook the player stays in Ended.
C11_EndReachedNotifiesFinished ==
    [][ StateChangedStep("Ended")
          => /\ Emits(emitted', NotifyPlayerFinished(audiobookFileProxy))
             /\ ~hasNextFile(audiobookFileProxy) => playerState' = "Ended" ]_vars

\* C12: every state-changed event to Playing stores the loaded record's path
\* as the selected file of its audiobook and the audiobook as the current
\* one, and emits notifyPlayerState(record, true), whether or not the parsed
\* event of the record has arrived.
C12_PlayingSelectsFile ==
    [][ StateChangedStep("Playing")
          => /\ selectedFile'[AudiobookOf(audiobookFileProxy)] = RecordPath(audiobookFileProxy)
             /\ settingAudiobook' = <<AudiobookOf(audiobookFileProxy)>>
             /\ emitted' = <<NotifyPlayerState(audiobookFileProxy, TRUE)>> ]_vars

\* C13: every state-changed event to Paused or Stopped stores the position
\* the engine reports at that moment as the record's currentTime and emits
\* notifyPlayerState(record, false).
C13_PausedSavesPosition ==
    [][ (StateChangedStep("Paused") \/ StateChangedStep("Stopped"))
          => /\ savedTime'[audiobookFileProxy] = <<vlcTime>>
             /\ emitted' = <<NotifyPlayerState(audiobookFileProxy, FALSE)>> ]_vars

\* C13 witness: a Paused event was delivered after the position had moved on
\* unseen (the record released, its currentTime not written by the time
\* event), and the stored currentTime is the engine's position.
C13_Witness ==
    /\ lastOp.op = "stateChanged"
    /\ lastOp.state = "Paused"
    /\ ~mediaLoaded
    /\ vlcTime = Tick
    /\ savedTime[audiobookFileProxy] = <<vlcTime>>
    /\ savedCompleteness[audiobookFileProxy].num = 0
    /\ emitted = <<NotifyPlayerState(audiobookFileProxy, FALSE)>>

\* C14: a parsed event with a duration d > 0 from the engine, for a loaded
\* record with no stored duration, stores d as the record's duration and
\* emits notifyMediaParsed(record) once.
C14_ParsedPersistsDuration ==
    [][ (StepOf("parsedChanged") /\ mediaLoaded /\ lastOp'.arg > 0
            /\ savedDuration[audiobookFileProxy] <= 0)
          => /\ savedDuration'[audiobookFileProxy] = lastOp'.arg
             /\ emitted' = <<NotifyMediaParsed(audiobookFileProxy)>> ]_vars

\* C14 witness: the first media the player loaded has been parsed with a
\* duration, which is now the record's stored duration.
C14_Witness ==
    /\ lastOp.op = "parsedChanged"
    /\ lastOp.arg = BackendDuration(audiobookFileProxy)
    /\ handlesCreated = 1
    /\ mediaLoaded
    /\ savedDuration[audiobookFileProxy] = lastOp.arg
    /\ emitted = <<NotifyMediaParsed(audiobookFileProxy)>>

\* C15 as stated: at a parsed event for the loaded record a seek to the
\* stored currentTime is issued if and only if a currentTime is stored; with
\* none stored no seek is issued and the position is left alone.
C15_SeekIffSavedTime ==
    [][ (StepOf("parsedChanged") /\ mediaLoaded)
          => IF savedTime[audiobookFileProxy] # <<>>
             THEN lastSeek' = <<savedTime[audiobookFileProxy][1]>>
             ELSE lastSeek' = <<>> /\ UNCHANGED vlcTime ]_vars

\* C15 amended: the seek is issued if and only if a currentTime is stored
\* and the engine reports the media seekable; otherwise no seek is issued and
\* the position is left alone.
C15_SeekIffSavedTimeAndSeekable ==
    [][ (StepOf("parsedChanged") /\ mediaLoaded)
          => IF savedTime[audiobookFileProxy] # <<>> /\ vlcSeekable
             THEN /\ lastSeek' = <<savedTime[audiobookFileProxy][1]>>
                  /\ vlcTime' = savedTime[audiobookFileProxy][1]
             ELSE lastSeek' = <<>> /\ UNCHANGED vlcTime ]_vars

\* C15 witness: a parsed event on seekable media has issued the seek to the
\* stored currentTime.
C15_Witness ==
    /\ lastOp.op = "parsedChanged"
    /\ mediaLoaded
    /\ vlcSeekable
    /\ savedTime[audiobookFileProxy] = <<Tick>>
    /\ lastSeek = <<Tick>>
    /\ vlcTime = Tick

\* C16: a time-changed event while media is loaded emits
\* notifyPlayerTime(record, t) and stores t as the record's currentTime; one
\* while no media is loaded emits nothing and stores nothing.
C16_TimeProgressed ==
    [][ StepOf("timeChanged")
          => IF mediaLoaded
             THEN /\ emitted' = <<NotifyPlayerTime(audiobookFileProxy, vlcTime')>>
                  /\ savedTime'[audiobookFileProxy] = <<vlcTime'>>
             ELSE /\ emitted' = <<>>
                  /\ UNCHANGED <<savedDuration, savedTime, savedCompleteness,
                                 selectedFile, settingAudiobook, settingVolume>> ]_vars

\* C16 witness: a time-changed event at position Tick was delivered with the
\* record loaded; it was notified and stored.
C16_Witness ==
    /\ lastOp.op = "timeChanged"
    /\ lastOp.arg = Tick
    /\ mediaLoaded
    /\ emitted = <<NotifyPlayerTime(audiobookFileProxy, Tick)>>
    /\ savedTime[audiobookFileProxy] = <<Tick>>

\* C17: updateSeekPosition(ms) issues a seek to ms exactly when media is
\* loaded and the engine reports it seekable; otherwise it changes nothing.
C17_SeekOnlyWhenSeekable ==
    [][ StepOf("updateSeekPosition")
          => /\ IF mediaLoaded /\ vlcSeekable
                THEN lastSeek' = <<lastOp'.arg>> /\ vlcTime' = lastOp'.arg
                ELSE lastSeek' = <<>> /\ UNCHANGED vlcTime
             /\ UNCHANGED <<playerFields, volume, proxyProperty, savedDuration, savedTime,
                            savedCompleteness, selectedFile, settingAudiobook,
                            settingVolume, vlcVolume, vlcSeekable, mediaState,
                            mediaParsed>> ]_vars

\* C17 witness: a seek to Tick was issued on loaded, seekable media.
C17_Witness ==
    /\ lastOp.op = "updateSeekPosition"
    /\ lastOp.arg = Tick
    /\ mediaLoaded
    /\ vlcSeekable
    /\ lastSeek = <<Tick>>
    /\ vlcTime = Tick

\* C18: after setVolume(v) on the player, media loaded or not, the engine's
\* volume is v and the volume stored by Setting is v.
C18_SetVolumeReachesEngineAndSetting ==
    [][ StepOf("setVolume")
          => /\ vlcVolume' = lastOp'.arg
             /\ settingVolume' = <<lastOp'.arg>> ]_vars

\* ------------------------------------------------- claims on ProxyManager

\* C19: the file cache never holds more than CACHE_SIZE_MAX entries.
C19_CacheWithinCeiling == size(abFileCache) <= CACHE_SIZE_MAX

\* The step taken is a get call on the named cache (every step of CacheSpec
\* leaves its own note in lastGet).
GetStep(cache) == lastGet'.cache = cache

\* C20: a get call with a key the cache holds returns the proxy cached under
\* the key and leaves it as it is (its record and its callbacks), whatever
\* record the call brings.
C20_SameKeySameProxy ==
    [][ /\ (GetStep("file") /\ abFileCache[lastGet'.key].id # 0)
           => /\ lastGet'.proxy = abFileCache[lastGet'.key].id
              /\ abFileCache' = abFileCache
        /\ (GetStep("audiobook") /\ loadedAudiobooks[lastGet'.key].id # 0)
           => /\ lastGet'.proxy = loadedAudiobooks[lastGet'.key].id
              /\ loadedAudiobooks' = loadedAudiobooks ]_vars

\* C20 witness: the last call brought another revision of a record than the
\* one its cached proxy was made from, and got that proxy, callbacks attached.
C20_Witness ==
    /\ lastGet.cache = "file"
    /\ lastGet.proxy = abFileCache[lastGet.key].id
    /\ lastGet.rev # abFileCache[lastGet.key].rev
    /\ abFileCache[lastGet.key].callback

\* The step taken empties the file cache: clearCache, or a
\* getAudiobookFileProxy that misses its key with the cache over its ceiling.
ClearStep ==
    \/ GetStep("clear")
    \/ GetStep("file") /\ abFileCache[lastGet'.key].id = 0 /\ cacheOverfull

\* The ids of a set of proxies.
ProxyIds(proxies) == {p.id : p \in proxies}

\* C21: a clear of the file cache leaves every proxy handed out before as it
\* was (its record, its callbacks, the sidecar documents), leaves the
\* audiobook cache alone and leaves no key cached; the first lookup of a key
\* after the clear constructs a new proxy, which is not the one handed out
\* for the key before the clear.
C21_ClearKeepsProxies ==
    [][ /\ ClearStep
           => /\ \A p \in handedOut(abFileCache) \cup droppedProxies : p \in droppedProxies'
              /\ loadedAudiobooks' = loadedAudiobooks
              /\ UNCHANGED <<savedDuration, savedTime, savedCompleteness, fileDuration>>
              /\ \A k \in Keys :
                    abFileCache'[k].id # 0 => GetStep("file") /\ k = lastGet'.key
        /\ ( /\ GetStep("file")
             /\ abFileCache[lastGet'.key].id = 0
             /\ \E p \in droppedProxies' : p.key = lastGet'.key )
           => /\ lastGet'.proxy \notin ProxyIds(droppedProxies')
              /\ lastGet'.proxy \notin ProxyIds(handedOut(abFileCache))
              /\ lastGet'.proxy > proxiesMade
              /\ abFileCache'[lastGet'.key].id = lastGet'.proxy ]_vars

\* C21 witness: a key whose proxy, callbacks attached, was dropped by a clear
\* has been looked up again and got another proxy, with an audiobook proxy
\* still cached.
C21_Witness ==
    /\ lastGet.cache = "file"
    /\ abFileCache[lastGet.key].id = lastGet.proxy
    /\ \E p \in droppedProxies :
          /\ p.key = lastGet.key
          /\ p.callback
          /\ p.id # lastGet.proxy
    /\ \E a \in Audiobooks : loadedAudiobooks[a].id # 0

\* The threads between the lookup and the insert of getAudiobookFileProxy.
InGetSection == {t \in GetThreads : getCalls[t].pc = "insert"}

\* C22: the lookup-or-insert sections of two threads never overlap, and a
\* thread that is about to construct a proxy for a key finds no proxy cached
\* under that key (so two concurrent lookups of one key construct one proxy
\* and both return it).
C22_GetSectionsExclusive ==
    /\ Cardinality(InGetSection) <= 1
    /\ \A t \in GetThreads :
          getCalls[t].pc = "insert" => abFileCache[getCalls[t].key].id = 0

\* ------------------------------------------ claims on the sidecar documents

\* C23: a step that stores a new duration for a file leaves the stored
\* duration of its audiobook equal to the sum of the positive durations of
\* the audiobook's files.
C23_DurationPersistUpdatesTotal ==
    [][ \A r \in Records :
          savedDuration'[r] # savedDuration[r]
          => audiobookDuration'[AudiobookOf(r)] =
                sumPositiveDurations(savedDuration',
                                     filesForAudiobookByDb(AudiobookOf(r))) ]_vars

\* C24: a step that stores a currentTime for a file of an audiobook whose
\* stored duration is > 0 leaves the audiobook's stored completeness equal to
\* round(sum of the files' currentTime / the audiobook's duration * 100).
C24_TimePersistUpdatesCompleteness ==
    [][ \A r \in Records :
          (savedTime'[r] # savedTime[r] /\ audiobookDuration[AudiobookOf(r)] > 0)
          => audiobookCompleteness'[AudiobookOf(r)] =
                round(100 * totalProgress(savedTime',
                                          filesForAudiobookByDb(AudiobookOf(r))),
                      audiobookDuration[AudiobookOf(r)]) ]_vars

\* C25: while the stored duration of an audiobook is 0 (or none is stored),
\* no step changes the audiobook's stored completeness.
C25_ZeroTotalIsNoOp ==
    [][ \A a \in Audiobooks :
          audiobookDuration[a] = 0
          => audiobookCompleteness'[a] = audiobookCompleteness[a] ]_vars

\* The step taken is a saveCurrentTime call: no duration is written and no
\* document is synced.
SaveStep ==
    /\ lastSave'.record # 0
    /\ savedDuration' = savedDuration
    /\ \A r \in Records : unsynced[r] => unsynced'[r]

\* C26: a saveCurrentTime call on a file with a stored duration > 0 never
\* lowers the completeness getCompleteness reads, whatever time it brings.
C26_CompletenessNeverDecreases ==
    [][ SaveStep
        => \A r \in Records :
              savedDuration[r] > 0 => getCompleteness(r)' >= getCompleteness(r) ]_vars

\* C26 witness: a file of duration 2 * Tick was saved at its end and then at
\* an earlier time, and still reads 100.
C26_Witness ==
    /\ lastSave.record # 0
    /\ savedDuration[lastSave.record] = 2 * Tick
    /\ lastSave.time = Tick
    /\ savedTime[lastSave.record] = <<Tick>>
    /\ getCompleteness(lastSave.record) = 100

\* C27: saveCurrentTime(t) on a file with stored duration d and completeness
\* c stores t as the currentTime; with d > 0 the completeness read afterwards
\* is round(100 * t / d) when 100 * t / d exceeds c and c otherwise; with no
\* duration known the stored completeness is left as it is. No other file's
\* document is written.
C27_SaveCurrentTime ==
    [][ SaveStep
        => \A r \in Records :
              IF lastSave'.record = r
              THEN LET t == lastSave'.time
                       d == savedDuration[r]
                       c == getCompleteness(r)
                   IN  /\ savedTime'[r] = <<t>>
                       /\ IF d > 0
                          THEN getCompleteness(r)' =
                                  IF 100 * t > c * d THEN round(100 * t, d) ELSE c
                          ELSE savedCompleteness'[r] = savedCompleteness[r]
              ELSE /\ savedTime'[r] = savedTime[r]
                   /\ savedCompleteness'[r] = savedCompleteness[r] ]_vars

\* C27 witness: a file of duration 4 * Tick saved at Tick (completeness 25) and
\* then at 2 * Tick reads 50.
C27_Witness ==
    /\ lastSave.record # 0
    /\ savedDuration[lastSave.record] = 4 * Tick
    /\ lastSave.time = 2 * Tick
    /\ savedTime[lastSave.record] = <<2 * Tick>>
    /\ savedCompleteness[lastSave.record] = calcCompleteness(2 * Tick, 4 * Tick)
    /\ getCompleteness(lastSave.record) = 50

\* C28: the completeness of every file is within 0..100.
C28_CompletenessInRange ==
    \A r \in Records : getCompleteness(r) \in 0..100

\* C29: once a duration > 0 is stored for a file, no step changes what
\* getMediaDuration reads for it.
C29_PersistedDurationStable ==
    [][ \A f \in Files :
          fileDuration[f] > 0 => getMediaDuration(f)' = getMediaDuration(f) ]_vars

\* The records that follow record r in its audiobook.
Followers(r) ==
    {n \in Records : AudiobookOf(n) = AudiobookOf(r) /\ PositionOf(n) = PositionOf(r) + 1}

C33_EnqueueNotBlockedByProbe ==
    \A c \in CallIds :
        (calls[c].duringProbe /\ calls[c].pc = "lock" /\ Probing # {}) => mutexFree

\* The step taken is performScan of task t returning.
PerformScanReturns(t) ==
    /\ tasks[t].pc = "loop"
    /\ tasks'[t].pc \in {"finish", "returned", "done"}

\* C34: whenever performScan returns, the queue mutex is unlocked.
C34_ReturnUnlocksMutex ==
    [][ \A t \in CallIds : PerformScanReturns(t) => mutex' = FALSE ]_vars

\* ------------------------------------------- claims on the player's handles

\* The media handles made by loadMedia on which the reference loadMedia was
\* given is still held: libvlc_media_release has not been called on them.
Unreleased ==
    {h \in 1..handlesCreated :
        mediaRefCount(h) - (IF playerMedia = h THEN 1 ELSE 0) > 0}

\* C35: at most one media handle is created and not yet released, and after
\* releaseMedia the player holds none.
C35_AtMostOneHandleHeld ==
    /\ Cardinality(Unreleased) <= 1
    /\ (lastOp.op = "releaseMedia" /\ ~mediaLoaded) => Unreleased = {}

\* C39: a stop() never leaves the player playing, whatever state it was in.
C39_StopNeverPlays ==
    [][ StepOf("stop") => playerState' # "Playing" ]_vars

\* C40: a loadMedia that loads its record (no media was loaded) starts playback
\* exactly when some earlier play() was called with a media loaded; play()
\* with no media loaded changes neither the engine's state nor autoPlay; stop()
\* and releaseMedia() leave autoPlay as it is.
C40_AutoPlayLatch ==
    [][ /\ (LoadMediaStep /\ ~mediaLoaded)
           => (playerState' = "Playing" <=> lastOp.played)
        /\ (StepOf("play") /\ ~mediaLoaded)
           => (playerState' = playerState /\ autoPlay' = autoPlay)
        /\ (StepOf("stop") \/ StepOf("releaseMedia"))
           => autoPlay' = autoPlay ]_vars

\* C40 witness: after a play() with the first media and a releaseMedia(), the
\* loadMedia of a second media has started playback by itself.
C40_Witness ==
    /\ lastOp.op = "loadMedia"
    /\ lastOp.played
    /\ mediaItem = 2
    /\ playerMedia = 2
    /\ playerState = "Playing"

\* C31: no call on a file proxy returns with a value written to the sidecar
\* document and not yet flushed to the file.
C31_WritesFlushed ==
    \A r \in Records : ~unsynced[r]

\* C32: a component whose constructor has completed holds an engine instance
\* and a media player, neither of them NULL.
C32_BuiltHoldsHandles ==
    \A c \in Components :
        vlcHandles[c].stage = "built"
        => (vlcHandles[c].inst /\ vlcHandles[c].mediaPlayer)

\* C36: when the callback of a state-changed event of a media that is no
\* longer the loaded one runs, it changes none of the stored values of the
\* loaded record and emits no signal that carries the loaded record.
C36_StaleEventLeavesLoadedRecord ==
    [][ ( /\ StepOf("stateChanged")
          /\ pendingEvent.media # 0
          /\ pendingEvent.media # mediaItem
          /\ mediaLoaded )
        => /\ savedTime'[audiobookFileProxy] = savedTime[audiobookFileProxy]
           /\ savedCompleteness'[audiobookFileProxy] = savedCompleteness[audiobookFileProxy]
           /\ savedDuration'[audiobookFileProxy] = savedDuration[audiobookFileProxy]
           /\ selectedFile' = selectedFile
           /\ \A i \in DOMAIN emitted' : emitted'[i].record # audiobookFileProxy ]_vars

\* C37: when rescan inserts file rows for an audiobook whose file list is
\* already cached, the list getFilesForAudiobook returns afterwards holds
\* every file that was inserted.
C37_RescanListsNewFiles ==
    [][ (rescan /\ fileListCache # {})
        => \A p \in Paths :
              (audiobook_file[p] = 0 /\ audiobook_file'[p] # 0)
              => p \in filesListed' ]_vars

\* C38: the positions of the audiobook's file rows are exactly 1..n in
\* ascending path order: each row's position is the index of its path among
\* the paths that have a row.
C38_PositionsAreIndexes ==
    \A p \in audiobookFileRows :
        audiobook_file[p] = positionIn(p, audiobookFileRows)

====
